---------------------------- MODULE Spec2Model ----------------------------
(***************************************************************************)
(* Smart payment router: sliding-window health tracker, cost-aware         *)
(* weighted-random router, processor behaviour model and simulation        *)
(* engine (src/src/healthTracker.ts, smartRouter.ts, simulation.ts and the *)
(* processors module held in src/src/server.ts lines 169-272).             *)
(*                                                                         *)
(* Numbers.  Times are integer milliseconds, now = 0 at construction, so   *)
(* seed transactions carry negative timestamps.  Rates are exact fractions *)
(* [n, d] (the code divides two small integers); thresholds and failure    *)
(* rates are kept in percent (92 for 0.92).  Math.random() is an explicit  *)
(* input of every operator that draws.                                     *)
(***************************************************************************)
EXTENDS Integers, Sequences, FiniteSets, TLC

\* ------------------------------------------------------------- bounds ----
MaxSeed == 1        \* seed transactions generated by the constructor
MaxTx == 2          \* live transactions issued by ticks
MaxStarts == 2      \* start() calls that actually start the engine
MaxOps == 2         \* operator calls on the running engine (override, thresholds)
MaxDegrades == 1    \* degrade/restore calls during the engine's life cycle
MaxEvents == 3      \* recordEvent calls made directly on the tracker
MaxRouterEvents == 2 \* recordEvent calls in the router specification
MaxTime == 16000    \* the clock stops advancing here
MaxWindow == 4       \* events of a window of freely mixed outcomes
MaxFirstRun == 85    \* events of the first run of a window made of two runs
MaxSecondRun == 15   \* events of its second run
MaxToggles == 4      \* override toggles of the backend variant

\* ---------------------------------------------------- program constants --
TX_INTERVAL_MS == 350
MAX_STORED_TRANSACTIONS == 500
SEED_COUNT == 500
TPS_WINDOW_MS == 5000
MIN_AMOUNT_CENTS == 1000
MAX_AMOUNT_CENTS == 30000
SEED_WINDOW_MS == 300000
TIMEOUT_CEILING_MS == 3000

NULL == "null"

\* null in the two numeric fields: no interval handle, no start timestamp.
NoHandle == 0

NoTime == -1

EventType == {"success", "declined", "error", "timeout"}

PROCESSOR_CONFIGS ==
  << [id |-> "veloce",   costPerTransaction |-> 210, baseLatencyMs |-> 120],
     [id |-> "pagorp",   costPerTransaction |-> 180, baseLatencyMs |-> 180],
     [id |-> "meridian", costPerTransaction |-> 250, baseLatencyMs |-> 220] >>

PROCESSOR_IDS == [i \in 1..Len(PROCESSOR_CONFIGS) |-> PROCESSOR_CONFIGS[i].id]

ProcSet == {PROCESSOR_IDS[i] : i \in 1..Len(PROCESSOR_IDS)}

ConfigOf(p) == CHOOSE c \in {PROCESSOR_CONFIGS[i] : i \in 1..Len(PROCESSOR_CONFIGS)} : c.id = p

MAX_COST ==
  CHOOSE m \in {PROCESSOR_CONFIGS[i].costPerTransaction : i \in 1..Len(PROCESSOR_CONFIGS)} :
    \A i \in 1..Len(PROCESSOR_CONFIGS) : PROCESSOR_CONFIGS[i].costPerTransaction <= m

DEFAULT_CONFIG ==
  [windowSizeMs |-> 15000, degradedThreshold |-> 92, downThreshold |-> 75,
   recentSampleSize |-> 8, minSamples |-> 6]

\* ------------------------------------------------------------ arithmetic --
Frac(n, d) == [n |-> n, d |-> d]

FracLE(a, b) == a.n * b.d <= b.n * a.d

\* Math.max where the code takes Math.min.
FracMax(a, b) == IF FracLE(a, b) THEN b ELSE a

FracMin(a, b) == IF FracLE(a, b) THEN a ELSE b

Max(a, b) == IF a >= b THEN a ELSE b

Min(a, b) == IF a <= b THEN a ELSE b

\* Math.floor where the code takes Math.round.
RoundDown(n, d) == n \div d

\* Math.round of the non-negative rational n/d: nearest integer, halves up.
Round(n, d) == (2 * n + d) \div (2 * d)

RECURSIVE SeqSum(_)
SeqSum(s) == IF s = << >> THEN 0 ELSE Head(s) + SeqSum(Tail(s))

\* slice(0, k) where the code takes slice(-k): the first k elements.
SliceFirst(s, k) == SubSeq(s, 1, Min(k, Len(s)))

\* Array.prototype.slice(-k): the last k elements (all of them when k >= length).
SliceLast(s, k) == SubSeq(s, Max(1, Len(s) - k + 1), Len(s))

\* -------------------------------------------------------- health tracker --
countByType(events, type) == Len(SelectSeq(events, LAMBDA e : e.type = type))

\* computeSuccessRate that counts every event that is not a technical fault.
computeSuccessRateNonFailed(events) ==
  IF Len(events) = 0 THEN Frac(1, 1)
  ELSE Frac(countByType(events, "success") + countByType(events, "declined"), Len(events))

computeSuccessRate(events) ==
  IF Len(events) = 0 THEN Frac(1, 1)
  ELSE Frac(countByType(events, "success"), Len(events))

\* computeTechnicalAvailability that takes every non-approved event for a fault.
computeTechnicalAvailabilityApprovedOnly(events) ==
  IF Len(events) = 0 THEN Frac(1, 1)
  ELSE Frac(countByType(events, "success"), Len(events))

computeTechnicalAvailability(events) ==
  IF Len(events) = 0 THEN Frac(1, 1)
  ELSE Frac(Len(events) - (countByType(events, "error") + countByType(events, "timeout")),
            Len(events))

computeAvgLatency(events) ==
  IF Len(events) = 0 THEN Frac(0, 1)
  ELSE Frac(SeqSum([i \in 1..Len(events) |-> events[i].latencyMs]), Len(events))

\* computeScore with the latency share always granted in full.
computeScoreIgnoringLatency(technicalAvailability, avgLatency) ==
  Round(70 * technicalAvailability.n + 30 * technicalAvailability.d,
        technicalAvailability.d)

\* round(min(100, 70*avail + max(0, 30*(1 - avg/3000)))), over the common
\* denominator 100 * avail.d * avg.d.
computeScore(technicalAvailability, avgLatency) ==
  LET den == 100 * technicalAvailability.d * avgLatency.d
      availabilityScore == 7000 * technicalAvailability.n * avgLatency.d
      latencyScore == Max(0, (3000 * avgLatency.d - avgLatency.n) * technicalAvailability.d)
      sum == availabilityScore + latencyScore
  IN  IF sum >= 100 * den THEN 100 ELSE Round(sum, den)

\* computeStatus with the comparison against downThreshold turned round.
computeStatusDownInverted(technicalAvailability, cfg) ==
  IF technicalAvailability.n * 100 >= cfg.degradedThreshold * technicalAvailability.d
    THEN "healthy"
  ELSE IF technicalAvailability.n * 100 <= cfg.downThreshold * technicalAvailability.d
    THEN "degraded"
  ELSE "down"

computeStatus(technicalAvailability, cfg) ==
  IF technicalAvailability.n * 100 >= cfg.degradedThreshold * technicalAvailability.d
    THEN "healthy"
  ELSE IF technicalAvailability.n * 100 >= cfg.downThreshold * technicalAvailability.d
    THEN "degraded"
  ELSE "down"

\* emptyHealth that reports an unused processor as one with no success.
emptyHealthNoSuccess(processorId, t) ==
  [processorId |-> processorId, successRate |-> Frac(0, 1), declineRate |-> Frac(0, 1),
   errorRate |-> Frac(0, 1), timeoutRate |-> Frac(0, 1), avgLatencyMs |-> 0,
   totalRequests |-> 0, status |-> "healthy", score |-> 0, lastUpdated |-> t]

emptyHealth(processorId, t) ==
  [processorId |-> processorId, successRate |-> Frac(1, 1), declineRate |-> Frac(0, 1),
   errorRate |-> Frac(0, 1), timeoutRate |-> Frac(0, 1), avgLatencyMs |-> 0,
   totalRequests |-> 0, status |-> "healthy", score |-> 100, lastUpdated |-> t]

\* pruneWindow with the cutoff taken from the default window size instead of
\* the configured one.
pruneWindowDefaultSize(events, cfg, t) ==
  LET cutoff == t - DEFAULT_CONFIG.windowSizeMs
  IN  SelectSeq(events, LAMBDA e : e.timestamp >= cutoff)

\* pruneWindow that drops the event stamped exactly at the cutoff.
pruneWindowPastCutoff(events, cfg, t) ==
  LET cutoff == t - cfg.windowSizeMs
  IN  SelectSeq(events, LAMBDA e : e.timestamp > cutoff)

\* pruneWindow: the events of a window that stay, at clock t.
pruneWindow(events, cfg, t) ==
  LET cutoff == t - cfg.windowSizeMs
  IN  SelectSeq(events, LAMBDA e : e.timestamp >= cutoff)

\* getHealth without the branch for windows of fewer than minSamples events.
healthOfNoSampleGuard(processorId, events, cfg, t) ==
  LET total == Len(events)
      technicalAvailability == computeTechnicalAvailability(events)
      avgLatency == computeAvgLatency(events)
      recentEvents == SliceLast(events, cfg.recentSampleSize)
      effectiveAvailability ==
        IF Len(recentEvents) >= cfg.recentSampleSize \div 2
          THEN FracMin(technicalAvailability, computeTechnicalAvailability(recentEvents))
          ELSE technicalAvailability
  IN  IF total = 0 THEN emptyHealth(processorId, t)
      ELSE [processorId |-> processorId, successRate |-> computeSuccessRate(events),
            declineRate |-> Frac(countByType(events, "declined"), total),
            errorRate |-> Frac(countByType(events, "error"), total),
            timeoutRate |-> Frac(countByType(events, "timeout"), total),
            avgLatencyMs |-> Round(avgLatency.n, avgLatency.d),
            totalRequests |-> total, lastUpdated |-> t,
            status |-> computeStatus(effectiveAvailability, cfg),
            score |-> computeScore(effectiveAvailability, avgLatency)]

\* The snapshot getHealth derives from an already pruned window.
healthOf(processorId, events, cfg, t) ==
  LET total == Len(events)
      successRate == computeSuccessRate(events)
      declineRate == Frac(countByType(events, "declined"), total)
      errorRate   == Frac(countByType(events, "error"), total)
      timeoutRate == Frac(countByType(events, "timeout"), total)
      technicalAvailability == Frac(total - errorRate.n - timeoutRate.n, total)
      avgLatency == computeAvgLatency(events)
      recentEvents == SliceLast(events, cfg.recentSampleSize)
      useRecent == Len(recentEvents) >= cfg.recentSampleSize \div 2
      effectiveAvailability ==
        IF useRecent
          THEN FracMin(technicalAvailability, computeTechnicalAvailability(recentEvents))
          ELSE technicalAvailability
      base == [processorId |-> processorId, successRate |-> successRate,
               declineRate |-> declineRate, errorRate |-> errorRate,
               timeoutRate |-> timeoutRate,
               avgLatencyMs |-> Round(avgLatency.n, avgLatency.d),
               totalRequests |-> total, lastUpdated |-> t]
  IN  IF total = 0 THEN emptyHealth(processorId, t)
      ELSE IF total < cfg.minSamples
        THEN base @@ [status |-> "healthy",
                      score |-> computeScore(technicalAvailability, avgLatency)]
      ELSE base @@ [status |-> computeStatus(effectiveAvailability, cfg),
                    score |-> computeScore(effectiveAvailability, avgLatency)]

\* getHealth(processorId) on the tracker state (w, cfg) at clock t: the
\* snapshot; an id with no window gives the empty snapshot.
getHealth(processorId, w, cfg, t) ==
  IF processorId \in DOMAIN w
    THEN healthOf(processorId, pruneWindow(w[processorId], cfg, t), cfg, t)
    ELSE emptyHealth(processorId, t)

\* The windows after getAllHealth(PROCESSOR_IDS): every window pruned.
prunedAll(w, cfg, t) == [p \in DOMAIN w |-> pruneWindow(w[p], cfg, t)]

getAllHealth(processorIds, w, cfg, t) ==
  [i \in 1..Len(processorIds) |-> getHealth(processorIds[i], w, cfg, t)]

\* recordEvent that prunes without having pushed the event.
recordEventPruneOnly(w, cfg, t, processorId, type, latencyMs) ==
  IF processorId \notin DOMAIN w THEN w
  ELSE [w EXCEPT ![processorId] = pruneWindow(@, cfg, t)]

\* recordEvent that opens a window for an id it does not know.
recordEventCreatingWindow(w, cfg, t, processorId, type, latencyMs) ==
  LET ev == [timestamp |-> t, type |-> type, latencyMs |-> latencyMs]
  IN  IF processorId \notin DOMAIN w
        THEN [p \in DOMAIN w \cup {processorId} |->
                IF p = processorId THEN << ev >> ELSE w[p]]
      ELSE [w EXCEPT ![processorId] = pruneWindow(Append(@, ev), cfg, t)]

\* recordEvent that puts the new event in front of the window.
recordEventPrepending(w, cfg, t, processorId, type, latencyMs) ==
  IF processorId \notin DOMAIN w THEN w
  ELSE [w EXCEPT ![processorId] =
          pruneWindow(<< [timestamp |-> t, type |-> type, latencyMs |-> latencyMs] >> \o @,
                      cfg, t)]

\* recordEvent: append at the current clock, then prune.
recordEvent(w, cfg, t, processorId, type, latencyMs) ==
  IF processorId \notin DOMAIN w THEN w
  ELSE [w EXCEPT ![processorId] =
          pruneWindow(Append(@, [timestamp |-> t, type |-> type, latencyMs |-> latencyMs]),
                      cfg, t)]

\* ---------------------------------------------------------- smart router --
\* Math.round((MAX_COST - cost) / MAX_COST * 5)
applyCostBonus(baseScore, config) ==
  baseScore + Round((MAX_COST - config.costPerTransaction) * 5, MAX_COST)

\* filterCandidates that forgets the force-disabled case.
filterCandidatesNoForceOff(healthList, ov) ==
  SelectSeq(healthList,
            LAMBDA h : IF ov[h.processorId] = "forceOn" THEN TRUE
                       ELSE h.status # "down")

\* filterCandidates that forgets the force-enabled case.
filterCandidatesNoForceOn(healthList, ov) ==
  SelectSeq(healthList,
            LAMBDA h : IF ov[h.processorId] = "forceOff" THEN FALSE
                       ELSE h.status # "down")

\* filterCandidates that looks at health before the override.
filterCandidatesHealthFirst(healthList, ov) ==
  SelectSeq(healthList,
            LAMBDA h : IF h.status = "healthy" THEN TRUE
                       ELSE IF ov[h.processorId] = "forceOff" THEN FALSE
                       ELSE IF ov[h.processorId] = "forceOn" THEN TRUE
                       ELSE h.status # "down")

\* overrides: "forceOn" (true), "forceOff" (false) or NULL (no entry).
filterCandidates(healthList, ov) ==
  SelectSeq(healthList,
            LAMBDA h : IF ov[h.processorId] = "forceOff" THEN FALSE
                       ELSE IF ov[h.processorId] = "forceOn" THEN TRUE
                       ELSE h.status # "down")

\* getOverride: the entry of the overrides map, null when there is none.
getOverride(ov, processorId) ==
  IF processorId \in DOMAIN ov THEN ov[processorId] ELSE NULL

weightsOf(candidates) ==
  [i \in 1..Len(candidates) |->
     IF candidates[i].processorId \in ProcSet
       THEN applyCostBonus(candidates[i].score, ConfigOf(candidates[i].processorId))
       ELSE candidates[i].score]

\* The walk that stops only once the remainder is below 0.
RECURSIVE walkStrict(_, _, _)
walkStrict(weights, cursor2, i) ==
  IF i > Len(weights) THEN Len(weights)
  ELSE IF cursor2 - 2 * weights[i] < 0 THEN i
  ELSE walkStrict(weights, cursor2 - 2 * weights[i], i + 1)

\* The weighted walk from cursor2/2 (the cursor is kept in halves, so that a
\* draw falling exactly on a boundary and one strictly inside an interval are
\* both inputs): first index whose running remainder is <= 0, else the last.
RECURSIVE walk(_, _, _)
walk(weights, cursor2, i) ==
  IF i > Len(weights) THEN Len(weights)
  ELSE IF cursor2 - 2 * weights[i] <= 0 THEN i
  ELSE walk(weights, cursor2 - 2 * weights[i], i + 1)

\* weightedRandomSelect that reads the id at the walk's index from the
\* registry instead of the candidate list.
weightedRandomSelectRegistryIndex(candidates, draw) ==
  LET weights == weightsOf(candidates)
      totalWeight == SeqSum(weights)
  IN  IF totalWeight = 0
        THEN PROCESSOR_IDS[(draw.uniform % Len(candidates)) + 1]
        ELSE PROCESSOR_IDS[walk(weights, Min(draw.cursor2, 2 * totalWeight), 1)]

\* draw.uniform \in 0..Len-1 is floor(random * length) of the zero-weight
\* branch; draw.cursor2 \in 0..2*totalWeight is 2 * random * totalWeight (the
\* product can round up to totalWeight itself).
weightedRandomSelect(candidates, draw) ==
  LET weights == weightsOf(candidates)
      totalWeight == SeqSum(weights)
  IN  IF totalWeight = 0
        THEN candidates[(draw.uniform % Len(candidates)) + 1].processorId
        ELSE candidates[walk(weights, Min(draw.cursor2, 2 * totalWeight), 1)].processorId

\* selectProcessor once getAllHealth has returned healthList.
selectFrom(healthList, ov, draw) ==
  LET candidates == filterCandidates(healthList, ov)
  IN  IF Len(candidates) = 0 THEN NULL
      ELSE IF Len(candidates) = 1 THEN candidates[1].processorId
      ELSE weightedRandomSelect(candidates, draw)

selectProcessor(w, cfg, ov, t, draw) ==
  selectFrom(getAllHealth(PROCESSOR_IDS, w, cfg, t), ov, draw)

\* ------------------------------------------- backend variant: router --
\* src/backend: the router is handed the processor list and a health map on
\* every selection; fees are in hundredths of a percent.
PROCESSORS ==
  << [id |-> "veloce",   feePercent100 |-> 210, enabled |-> TRUE],
     [id |-> "pagorp",   feePercent100 |-> 180, enabled |-> TRUE],
     [id |-> "meridian", feePercent100 |-> 250, enabled |-> TRUE] >>

\* SmartRouter.computeScore of the backend, in units of 0.000002: success
\* rate (percent) at 70%, average response time at 30% of a 10 s scale, the
\* cost bonus (3.0 - fee) * 0.01, and the factor 0.4 for a degraded status.
backendComputeScore(processor, health) ==
  LET healthScore == 700 * health.successRate - 3 * health.avgResponseTimeMs
      costBonus == 10 * (300 - processor.feePercent100)
      rawScore == healthScore + costBonus
  IN  rawScore * (IF health.status = "degraded" THEN 2 ELSE 5)

backendFilterCandidates(processors, healthMap, ov) ==
  SelectSeq(processors,
            LAMBDA p : IF ov[p.id] = "forceOff" THEN FALSE
                       ELSE IF ~p.enabled /\ ov[p.id] # "forceOn" THEN FALSE
                       ELSE IF p.id \notin DOMAIN healthMap THEN TRUE
                       ELSE healthMap[p.id].status # "down" \/ ov[p.id] = "forceOn")

backendWeightedRandomSelect(candidates, healthMap, draw) ==
  LET weights == [i \in 1..Len(candidates) |->
                    Max(0, backendComputeScore(candidates[i], healthMap[candidates[i].id]))]
      totalWeight == SeqSum(weights)
  IN  IF totalWeight = 0
        THEN candidates[(draw.uniform % Len(candidates)) + 1].id
        ELSE candidates[walk(weights, Min(draw.cursor2, 2 * totalWeight), 1)].id

backendSelectProcessor(processors, healthMap, ov, draw) ==
  LET candidates == backendFilterCandidates(processors, healthMap, ov)
  IN  IF Len(candidates) = 0 THEN NULL
      ELSE IF Len(candidates) = 1 THEN candidates[1].id
      ELSE backendWeightedRandomSelect(candidates, healthMap, draw)

\* The new override state POST /api/processors/:id/toggle computes from
\* getOverride(id): force-enabled after force-disabled, else force-disabled.
toggleState(currentOverride) ==
  IF currentOverride = "forceOff" THEN "forceOn" ELSE "forceOff"

\* pruneOldRecords of the backend tracker: i runs over the leading records
\* older than the cutoff and splice(0, i) removes them.
pruneOldRecords(arr, cutoff) ==
  LET i == CHOOSE k \in 0..Len(arr) :
             /\ \A j \in 1..k : arr[j].timestamp < cutoff
             /\ k = Len(arr) \/ arr[k + 1].timestamp >= cutoff
  IN  SubSeq(arr, i + 1, Len(arr))

\* ------------------------------------------------------ behaviour model --
\* Failure profiles (rates in percent), toggled by degradeProcessor and
\* restoreProcessor; processTransaction reads them when a tick issues.
NormalProfile ==
  [degraded |-> FALSE, errorRate |-> 5, timeoutRate |-> 3, declineRate |-> 10,
   latencyMultiplier |-> 1]

\* degradeProcessor that stops after its first two assignments.
degradeProcessorPartial(states, processorId) ==
  IF processorId \notin DOMAIN states THEN states
  ELSE [states EXCEPT ![processorId] = [@ EXCEPT !.degraded = TRUE, !.errorRate = 35]]

degradeProcessor(states, processorId) ==
  IF processorId \notin DOMAIN states THEN states
  ELSE [states EXCEPT ![processorId] =
          [@ EXCEPT !.degraded = TRUE, !.errorRate = 35, !.timeoutRate = 40,
                    !.latencyMultiplier = 40]]

\* restoreProcessor that leaves the timeout rate where degrade put it.
restoreProcessorKeepsTimeouts(states, processorId) ==
  IF processorId \notin DOMAIN states THEN states
  ELSE [states EXCEPT ![processorId] =
          [@ EXCEPT !.degraded = FALSE, !.errorRate = 5, !.latencyMultiplier = 1]]

restoreProcessor(states, processorId) ==
  IF processorId \notin DOMAIN states THEN states
  ELSE [states EXCEPT ![processorId] =
          [@ EXCEPT !.degraded = FALSE, !.errorRate = 5, !.timeoutRate = 3,
                    !.latencyMultiplier = 1]]

\* processorStates.get(processorId)?.degraded ?? false
isProcessorDegraded(states, processorId) ==
  IF processorId \in DOMAIN states THEN states[processorId].degraded ELSE FALSE

\* The guard at the head of processTransaction: with no registry entry or no
\* failure profile for the id it throws Error("Unknown processor: ..."), so
\* the promise the async function returns is rejected.
processTransactionThrows(states, processorId) ==
  \/ processorId \notin ProcSet
  \/ processorId \notin DOMAIN states

\* processTransaction that tests each rate on its own instead of the running sum.
processTransactionSeparateRates(states, processorId, jitter10, rand) ==
  LET config == ConfigOf(processorId)
      state == states[processorId]
      baseLatency == config.baseLatencyMs * state.latencyMultiplier
      latencyMs == Round(baseLatency * 100 + jitter10 * baseLatency * 4, 100)
  IN  IF rand < state.timeoutRate
        THEN [status |-> "timeout", latencyMs |-> TIMEOUT_CEILING_MS,
              sleepMs |-> Min(latencyMs, TIMEOUT_CEILING_MS)]
      ELSE IF rand < state.errorRate
        THEN [status |-> "error", latencyMs |-> latencyMs, sleepMs |-> latencyMs]
      ELSE IF rand < state.declineRate
        THEN [status |-> "declined", latencyMs |-> latencyMs, sleepMs |-> latencyMs]
      ELSE [status |-> "success", latencyMs |-> latencyMs, sleepMs |-> latencyMs]

\* processTransaction up to its await: jitter10 is floor(10 * random) of the
\* jitter draw, rand the outcome draw in percent.  sleepMs is the timer it
\* then waits on; status and latencyMs are what it resolves to.
processTransaction(states, processorId, jitter10, rand) ==
  LET config == ConfigOf(processorId)
      state == states[processorId]
      baseLatency == config.baseLatencyMs * state.latencyMultiplier
      \* Math.round(baseLatency + jitter), jitter = random * baseLatency * 0.4
      latencyMs == Round(baseLatency * 100 + jitter10 * baseLatency * 4, 100)
  IN  IF rand < state.timeoutRate
        THEN [status |-> "timeout", latencyMs |-> TIMEOUT_CEILING_MS,
              sleepMs |-> Min(latencyMs, TIMEOUT_CEILING_MS)]
      ELSE IF rand < state.timeoutRate + state.errorRate
        THEN [status |-> "error", latencyMs |-> latencyMs, sleepMs |-> latencyMs]
      ELSE IF rand < state.timeoutRate + state.errorRate + state.declineRate
        THEN [status |-> "declined", latencyMs |-> latencyMs, sleepMs |-> latencyMs]
      ELSE [status |-> "success", latencyMs |-> latencyMs, sleepMs |-> latencyMs]

\* ----------------------------------------------------- simulation engine --
emptyMetrics ==
  [totalTransactions |-> 0, successfulTransactions |-> 0, declinedTransactions |-> 0,
   failedTransactions |-> 0, authRate |-> Frac(0, 1), totalCostSavedUsd |-> 0,
   avgLatencyMs |-> 0, transactionsPerSecond |-> 0]

\* updateMetrics that derives authRate before counting the transaction.
updateMetricsStaleAuthRate(m, tx, costSavedUsd, t) ==
  LET total == m.metrics.totalTransactions + 1
      succ == m.metrics.successfulTransactions + (IF tx.status = "success" THEN 1 ELSE 0)
      decl == m.metrics.declinedTransactions + (IF tx.status = "declined" THEN 1 ELSE 0)
      fail == m.metrics.failedTransactions
                + (IF tx.status \notin {"success", "declined"} THEN 1 ELSE 0)
  IN  [m EXCEPT !.metrics.totalTransactions = total,
                !.metrics.successfulTransactions = succ,
                !.metrics.declinedTransactions = decl,
                !.metrics.failedTransactions = fail,
                !.metrics.authRate =
                   IF m.metrics.totalTransactions > 0
                     THEN Frac(m.metrics.successfulTransactions,
                               m.metrics.totalTransactions)
                     ELSE Frac(0, 1)]

\* updateMetrics with the final else narrowed to the error status.
updateMetricsErrorOnly(m, tx, costSavedUsd, t) ==
  LET total == m.metrics.totalTransactions + 1
      succ == m.metrics.successfulTransactions + (IF tx.status = "success" THEN 1 ELSE 0)
      decl == m.metrics.declinedTransactions + (IF tx.status = "declined" THEN 1 ELSE 0)
      fail == m.metrics.failedTransactions + (IF tx.status = "error" THEN 1 ELSE 0)
  IN  [m EXCEPT !.metrics.totalTransactions = total,
                !.metrics.successfulTransactions = succ,
                !.metrics.declinedTransactions = decl,
                !.metrics.failedTransactions = fail,
                !.metrics.authRate = Frac(succ, total)]

\* The engine fields updateMetrics writes: metrics and the two TPS fields.
\* totalCostSavedUsd is kept in 1e-6 USD (basis points times cents) and
\* transactionsPerSecond in tenths.
updateMetrics(m, tx, costSavedUsd, t) ==
  LET total == m.metrics.totalTransactions + 1
      succ == m.metrics.successfulTransactions + (IF tx.status = "success" THEN 1 ELSE 0)
      decl == m.metrics.declinedTransactions + (IF tx.status = "declined" THEN 1 ELSE 0)
      fail == m.metrics.failedTransactions
                + (IF tx.status \notin {"success", "declined"} THEN 1 ELSE 0)
      count == m.tpsWindowCount + 1
      elapsed == t - m.tpsWindowStart >= TPS_WINDOW_MS
  IN  [metrics |->
         [totalTransactions |-> total,
          successfulTransactions |-> succ,
          declinedTransactions |-> decl,
          failedTransactions |-> fail,
          authRate |-> IF total > 0 THEN Frac(succ, total) ELSE Frac(0, 1),
          totalCostSavedUsd |-> m.metrics.totalCostSavedUsd + costSavedUsd,
          avgLatencyMs |-> IF total = 1 THEN tx.latencyMs
                           ELSE Round(9 * m.metrics.avgLatencyMs + tx.latencyMs, 10),
          transactionsPerSecond |->
            IF elapsed THEN Round(count * 1000 * 10, TPS_WINDOW_MS)
            ELSE m.metrics.transactionsPerSecond],
       tpsWindowCount |-> IF elapsed THEN 0 ELSE count,
       tpsWindowStart |-> IF elapsed THEN t ELSE m.tpsWindowStart]

\* storeTransaction that never pops.
storeTransactionUnbounded(buffer, tx) == << tx >> \o buffer

\* storeTransaction: unshift, then pop when over capacity.
storeTransaction(buffer, tx) ==
  LET grown == << tx >> \o buffer
  IN  IF Len(grown) > MAX_STORED_TRANSACTIONS THEN SubSeq(grown, 1, Len(grown) - 1)
      ELSE grown

\* getRecentTransactions: recentTransactions.slice(0, 100)
getRecentTransactions(buffer) == SubSeq(buffer, 1, Min(100, Len(buffer)))

\* The saving credited whatever the outcome.
costSavedUsdOfAnyStatus(status, costSavedBps, amount) == costSavedBps * amount

\* costSavedUsd of runTransaction, in 1e-6 USD:
\* (costSavedBps / 10_000) * (amount / 100) on success, else 0.
costSavedUsdOf(status, costSavedBps, amount) ==
  IF status = "success" THEN costSavedBps * amount ELSE 0

\* makeTx that stamps a transaction with the time it was issued.
makeTxIssueStamped(id, processorId, amount, status, latencyMs, timestamp) ==
  LET feeBps == IF processorId \in ProcSet
                  THEN ConfigOf(processorId).costPerTransaction ELSE 0
  IN  [id |-> id, processorId |-> processorId, amount |-> amount, status |-> status,
       latencyMs |-> latencyMs, timestamp |-> timestamp - latencyMs, feeBps |-> feeBps,
       costSavedBps |-> MAX_COST - feeBps]

\* The Transaction record runTransaction and seedHistoricalData build.
makeTx(id, processorId, amount, status, latencyMs, timestamp) ==
  LET feeBps == IF processorId \in ProcSet
                  THEN ConfigOf(processorId).costPerTransaction ELSE 0
  IN  [id |-> id, processorId |-> processorId, amount |-> amount, status |-> status,
       latencyMs |-> latencyMs, timestamp |-> timestamp, feeBps |-> feeBps,
       costSavedBps |-> MAX_COST - feeBps]


\* ------------------------------------------------------------ the state --
VARIABLES
  now,                \* Date.now()
  windows,            \* HealthTracker.windows
  config,             \* HealthTracker.config
  overrides,          \* SmartRouter.overrides
  processorStates,    \* processors module: processorStates
  running,            \* Simulation.running
  startTime,          \* Simulation.startTime
  intervalHandle,     \* Simulation.intervalHandle
  timers,             \* the runtime's active setInterval timers [id, due]
  recentTransactions, \* Simulation.recentTransactions
  metrics,            \* Simulation.metrics
  tpsWindowStart,     \* Simulation.tpsWindowStart
  tpsWindowCount,     \* Simulation.tpsWindowCount
  inflight,           \* runTransaction calls suspended at their await
  emitted,            \* the events emitted so far, oldest first
  selected,           \* what the last selectProcessor() call returned
  recorded,           \* every event ever given to recordEvent, per processor
  issued,             \* transactions issued by ticks
  starts,             \* start() calls that started the engine
  ops                 \* operator calls made

vars == << now, windows, config, overrides, processorStates, running, startTime,
           intervalHandle, timers, recentTransactions, metrics, tpsWindowStart,
           tpsWindowCount, inflight, emitted, selected, recorded, issued, starts, ops >>

trackerVars == << windows, config, recorded >>

engineVars == << running, startTime, intervalHandle, timers, recentTransactions, metrics,
                 tpsWindowStart, tpsWindowCount, inflight, emitted, issued, starts >>

\* -------------------------------------------------------------- inputs --
\* Math.random() draws and request bodies, each from a small set.
Amounts == {MAX_AMOUNT_CENTS}

Jitters == {5}

\* Outcome draws in percent: one in each bucket of both failure profiles.
Rands == {0, 5, 10, 50, 80, 90}

OverrideStates == {"forceOn", "forceOff", NULL}

\* Bodies of PUT /api/thresholds: partial configurations.
ConfigPatches ==
  { [minSamples |-> 1], [windowSizeMs |-> 300], [windowSizeMs |-> 15000] }

ClockSteps == {15000}

\* The seed draws of seedHistoricalData: age, processor, amount, status and
\* jitter of one historical transaction.
SeedChoices ==
  { [age |-> 15000,  processorId |-> "meridian", amount |-> MIN_AMOUNT_CENTS,
     status |-> "error",   jitter10 |-> 0],
    [age |-> 200000, processorId |-> "veloce",   amount |-> MAX_AMOUNT_CENTS,
     status |-> "success", jitter10 |-> 5] }

\* Full seed batches of SEED_COUNT draws: the ages spread over the seed
\* window, the processors in turn, the outcomes near the seed distribution
\* (3% timeout, 5% error, 10% declined).  batch shifts the whole pattern.
seedDraw(i, batch) ==
  LET k == i + batch
  IN  [age |-> ((k * 37) % 300) * 1000 + (k % 7) * 100,
       processorId |-> PROCESSOR_IDS[(k % Len(PROCESSOR_IDS)) + 1],
       amount |-> MIN_AMOUNT_CENTS + ((k * 59) % (MAX_AMOUNT_CENTS - MIN_AMOUNT_CENTS)),
       status |-> IF k % 33 = 0 THEN "timeout"
                  ELSE IF k % 20 = 0 THEN "error"
                  ELSE IF k % 10 = 0 THEN "declined"
                  ELSE "success",
       jitter10 |-> k % 10]

SeedBatches == {[i \in 1..SEED_COUNT |-> seedDraw(i, batch)] : batch \in {0, 1}}

\* Direct recordEvent inputs (type, latencyMs) of the tracker's callers.
EventInputs ==
  { [type |-> "success", latencyMs |-> 120], [type |-> "declined", latencyMs |-> 180],
    [type |-> "error", latencyMs |-> 4800],  [type |-> "timeout", latencyMs |-> 3000] }

\* The inputs the router specification records and the threshold patch it
\* applies: enough for every status a filter decision depends on.
RouterEventInputs ==
  { [type |-> "success", latencyMs |-> 120], [type |-> "error", latencyMs |-> 4800] }

RouterPatches == { [minSamples |-> 1] }

\* The recordEvent inputs and the constructor options of the tracker's unit
\* tests (healthTracker.test.ts), with a timeout added.
HealthEventInputs ==
  { [type |-> "success", latencyMs |-> 100], [type |-> "success", latencyMs |-> 2500],
    [type |-> "declined", latencyMs |-> 150], [type |-> "error", latencyMs |-> 100],
    [type |-> "timeout", latencyMs |-> 3000] }

HealthPatches == { [minSamples |-> 3], [recentSampleSize |-> 2] }

\* Health snapshots the backend's tracker hands the router: one per status
\* under its default thresholds (success rate in percent).
BackendHealthChoices ==
  { [status |-> "healthy",  successRate |-> 85, avgResponseTimeMs |-> 200],
    [status |-> "degraded", successRate |-> 70, avgResponseTimeMs |-> 2500],
    [status |-> "down",     successRate |-> 30, avgResponseTimeMs |-> 6000] }

\* Outcome draws in percent on either side of every cumulative threshold of
\* both failure profiles, and the two ends of the jitter draw.
ProcessRands == {0, 2, 3, 7, 8, 17, 18, 39, 40, 74, 75, 84, 85, 99}

ProcessJitters == {0, 9}

\* Bodies of PUT /api/thresholds that make one event decide the status,
\* the second also shortening the window to less than one tick interval.
RecoveryPatches == { [minSamples |-> 1], [minSamples |-> 1, windowSizeMs |-> 300] }

\* Ids a caller can pass that are not in the registry.
UnknownIds == {"unregistered"}

\* ------------------------------------------------------------- seeding --
seedTx(seed, i, t) ==
  LET config0 == ConfigOf(seed.processorId)
      latencyMs == IF seed.status = "timeout" THEN 3000
                   ELSE Round(config0.baseLatencyMs * 100
                                + seed.jitter10 * config0.baseLatencyMs * 4, 100)
  IN  makeTx(i, seed.processorId, seed.amount, seed.status, latencyMs, t - seed.age)

\* Array.prototype.sort((a, b) => b.timestamp - a.timestamp): stable, newest first.
\* The place element i takes: behind every element with a later timestamp
\* and every earlier element with the same one.
placeNewestFirst(txs, i) ==
  1 + Cardinality({j \in 1..Len(txs) :
                     \/ txs[j].timestamp > txs[i].timestamp
                     \/ txs[j].timestamp = txs[i].timestamp /\ j < i})

sortNewestFirst(txs) ==
  LET placed == {[place |-> placeNewestFirst(txs, i), tx |-> txs[i]] : i \in 1..Len(txs)}
  IN  [k \in 1..Len(txs) |-> (CHOOSE r \in placed : r.place = k).tx]

\* One pass of the loop of seedHistoricalData, for seed i; acc holds metrics,
\* the TPS fields, the tracker windows and the recorded-event history.
seedStep(seeds, i, acc, t) ==
  LET tx == seedTx(seeds[i], i, t)
      m == updateMetrics(acc.m, tx,
                         costSavedUsdOf(tx.status, tx.costSavedBps, tx.amount), t)
      replay == seeds[i].age <= acc.cfg.windowSizeMs
      ev == [timestamp |-> t, type |-> tx.status, latencyMs |-> tx.latencyMs]
  IN  [acc EXCEPT !.m = m,
                  !.w = IF replay
                          THEN recordEvent(acc.w, acc.cfg, t, tx.processorId,
                                           tx.status, tx.latencyMs)
                          ELSE @,
                  !.h = IF replay
                          THEN [@ EXCEPT ![tx.processorId] = Append(@, ev)]
                          ELSE @]

\* The passes for seeds lo..hi in order, the range halved at each level. Pass lo
\* starts with lo - 1 transactions counted (updateMetrics counts each seed), and
\* reading that count on entry has each range applied before the next begins.
RECURSIVE seedLoop(_, _, _, _, _)
seedLoop(seeds, lo, hi, acc, t) ==
  IF acc.m.metrics.totalTransactions # lo - 1 \/ lo > hi THEN acc
  ELSE IF lo = hi THEN seedStep(seeds, lo, acc, t)
  ELSE LET mid == (lo + hi) \div 2
       IN  seedLoop(seeds, mid + 1, hi, seedLoop(seeds, lo, mid, acc, t), t)

seedHistoricalData(seeds, t) ==
  LET acc == seedLoop(seeds, 1, Len(seeds),
                      [m |-> [metrics |-> emptyMetrics, tpsWindowCount |-> 0,
                              tpsWindowStart |-> t],
                       w |-> [p \in ProcSet |-> << >>],
                       h |-> [p \in ProcSet |-> << >>],
                       cfg |-> DEFAULT_CONFIG], t)
  IN  [m |-> acc.m, w |-> acc.w, h |-> acc.h,
       buffer |-> sortNewestFirst([i \in 1..Len(seeds) |-> seedTx(seeds[i], i, t)])]

\* The state after new HealthTracker(ids), new SmartRouter(..), and the
\* module initialisation of processorStates; the engine not yet built.
InitCore ==
  /\ now = 0
  /\ config = DEFAULT_CONFIG
  /\ overrides = [p \in ProcSet |-> NULL]
  /\ processorStates = [p \in ProcSet |-> NormalProfile]
  /\ running = FALSE
  /\ startTime = NoTime
  /\ intervalHandle = NoHandle
  /\ timers = {}
  /\ inflight = {}
  /\ emitted = << >>
  /\ selected = NULL
  /\ issued = 0
  /\ starts = 0
  /\ ops = 0

\* Tracker and router alone, driven directly by their callers.
InitTracker ==
  /\ InitCore
  /\ windows = [p \in ProcSet |-> << >>]
  /\ recorded = [p \in ProcSet |-> << >>]
  /\ recentTransactions = << >>
  /\ metrics = emptyMetrics
  /\ tpsWindowStart = 0
  /\ tpsWindowCount = 0

\* The state after new Simulation(router, tracker): the constructor seeds.
Init ==
  /\ InitCore
  /\ \E seeds \in [1..MaxSeed -> SeedChoices] :
       LET s == seedHistoricalData(seeds, 0)
       IN  /\ windows = s.w
           /\ recorded = s.h
           /\ recentTransactions = s.buffer
           /\ metrics = s.m.metrics
           /\ tpsWindowStart = s.m.tpsWindowStart
           /\ tpsWindowCount = s.m.tpsWindowCount


\* The state after new Simulation(router, tracker) with the full seed batch.
InitFull ==
  /\ InitCore
  /\ \E seeds \in SeedBatches :
       LET s == seedHistoricalData(seeds, 0)
       IN  /\ windows = s.w
           /\ recorded = s.h
           /\ recentTransactions = s.buffer
           /\ metrics = s.m.metrics
           /\ tpsWindowStart = s.m.tpsWindowStart
           /\ tpsWindowCount = s.m.tpsWindowCount

\* ------------------------------------------------------- tracker calls --
\* tracker.getAllHealth(PROCESSOR_IDS) made by a caller outside the engine
\* (GET /api/health, the init payload, the control handlers' broadcast): the
\* call prunes every window.
GetAllHealth ==
  /\ windows' = prunedAll(windows, config, now)
  /\ UNCHANGED << now, config, overrides, processorStates, selected, recorded, ops >>
  /\ UNCHANGED engineVars

\* tracker.updateConfig(patch): the patch merged over the current config.
UpdateConfig(patch) ==
  /\ config' = patch @@ config
  /\ UNCHANGED << now, windows, overrides, processorStates, selected, recorded >>
  /\ UNCHANGED engineVars

\* tracker.recordEvent(processorId, type, latencyMs) called directly.
RecordEvent(processorId, ev) ==
  /\ windows' = recordEvent(windows, config, now, processorId, ev.type, ev.latencyMs)
  /\ recorded' = IF processorId \notin DOMAIN recorded THEN recorded
                 ELSE [recorded EXCEPT ![processorId] =
                         Append(@, [timestamp |-> now, type |-> ev.type,
                                    latencyMs |-> ev.latencyMs])]
  /\ UNCHANGED << now, config, overrides, processorStates, selected >>
  /\ UNCHANGED engineVars

\* -------------------------------------------------------- router calls --
\* router.setOverride(processorId, enabled)
SetOverride(processorId, state) ==
  /\ overrides' = [overrides EXCEPT ![processorId] = state]
  /\ UNCHANGED << now, windows, config, processorStates, selected, recorded >>
  /\ UNCHANGED engineVars

\* The cursors weightedRandomSelect is handed, in half units: 0, the total
\* weight, and each boundary of the walk with the half unit on either side.
\* The weights are integers, so every other cursor compares like one of these.
cursorDraws(weights) ==
  {0, 2 * SeqSum(weights)}
    \cup {c \in {2 * SeqSum(SubSeq(weights, 1, i)) + k : i \in 1..Len(weights), k \in {-1, 0, 1}} :
            c >= 0 /\ c <= 2 * SeqSum(weights)}

DrawsFor(healthList, ov) ==
  LET candidates == filterCandidates(healthList, ov)
  IN  {[uniform |-> u, cursor2 |-> c] :
         u \in 0..(Len(PROCESSOR_IDS) - 1), c \in cursorDraws(weightsOf(candidates))}

\* What selectProcessor() can return in the current state.
Selectable ==
  LET healthList == getAllHealth(PROCESSOR_IDS, windows, config, now)
  IN  {selectFrom(healthList, overrides, d) : d \in DrawsFor(healthList, overrides)}

\* router.selectProcessor() called directly; getAllHealth prunes on the way.
SelectProcessor ==
  /\ \E sel \in Selectable : selected' = sel
  /\ windows' = prunedAll(windows, config, now)
  /\ UNCHANGED << now, config, overrides, processorStates, recorded, ops >>
  /\ UNCHANGED engineVars

\* ----------------------------------------------------- behaviour model --
DegradeProcessor(processorId) ==
  /\ processorStates' = degradeProcessor(processorStates, processorId)
  /\ UNCHANGED << now, windows, config, overrides, selected, recorded >>
  /\ UNCHANGED engineVars

RestoreProcessor(processorId) ==
  /\ processorStates' = restoreProcessor(processorStates, processorId)
  /\ UNCHANGED << now, windows, config, overrides, selected, recorded >>
  /\ UNCHANGED engineVars

\* processTransaction(processorId, amount) called with an id that fails its
\* guard: the call rejects before it draws or sleeps.
ProcessTransactionRejected(processorId) ==
  /\ processTransactionThrows(processorStates, processorId)
  /\ UNCHANGED << now, windows, config, overrides, processorStates, selected, recorded >>
  /\ UNCHANGED engineVars

\* runTransaction from the point where the router has returned processorId:
\* the synchronous part of processTransaction, with the draws it makes kept
\* in the record of the suspended call.
IssueTo(processorId, amount, jitter10, rand) ==
  /\ ~processTransactionThrows(processorStates, processorId)
  /\ issued < MaxTx
  /\ issued' = issued + 1
  /\ selected' = processorId
  /\ LET result == processTransaction(processorStates, processorId, jitter10, rand)
     IN  inflight' = inflight \cup
           {[seq |-> issued + 1, processorId |-> processorId, amount |-> amount,
             status |-> result.status, latencyMs |-> result.latencyMs,
             due |-> now + result.sleepMs, jitter10 |-> jitter10, rand |-> rand]}
  /\ UNCHANGED << now, windows, config, overrides, processorStates, running, startTime,
                  intervalHandle, timers, recentTransactions, metrics, tpsWindowStart,
                  tpsWindowCount, emitted, recorded, starts, ops >>

\* ---------------------------------------------------- backend variant --
\* POST /api/processors/:id/toggle
BackendToggle(id) ==
  /\ ops < MaxToggles
  /\ ops' = ops + 1
  /\ overrides' = [overrides EXCEPT ![id] = toggleState(getOverride(overrides, id))]
  /\ UNCHANGED << now, windows, config, processorStates, selected, recorded >>
  /\ UNCHANGED engineVars

backendDraws(candidates, healthMap) ==
  {[uniform |-> u, cursor2 |-> c] :
     u \in 0..(Len(PROCESSORS) - 1),
     c \in cursorDraws([i \in 1..Len(candidates) |->
                          Max(0, backendComputeScore(candidates[i],
                                                     healthMap[candidates[i].id]))])}

\* smartRouter.selectProcessor(PROCESSORS, healthMap) as the simulator calls
\* it for one transaction.
BackendSelect(healthMap) ==
  /\ \E draw \in backendDraws(backendFilterCandidates(PROCESSORS, healthMap, overrides),
                               healthMap) :
       selected' = backendSelectProcessor(PROCESSORS, healthMap, overrides, draw)
  /\ UNCHANGED << now, windows, config, overrides, processorStates, recorded, ops >>
  /\ UNCHANGED engineVars

\* ------------------------------------------------------------ the engine --
simulationEvent(r, st) ==
  [type |-> "simulation", payload |-> [running |-> r, startTime |-> st]]

\* setInterval hands out a handle no active timer has.
freshHandle == CHOOSE h \in 1..(Cardinality(timers) + 1) : \A t \in timers : t.id # h

\* start() without its guard on the running flag.
StartNoGuard ==
  /\ starts < MaxStarts
  /\ starts' = starts + 1
  /\ running' = TRUE
  /\ startTime' = now
  /\ emitted' = Append(emitted, simulationEvent(TRUE, now))
  /\ intervalHandle' = freshHandle
  /\ timers' = timers \cup {[id |-> freshHandle, due |-> now + TX_INTERVAL_MS]}
  /\ UNCHANGED << now, windows, config, overrides, processorStates, recentTransactions,
                  metrics, tpsWindowStart, tpsWindowCount, inflight, selected, recorded,
                  issued, ops >>

\* start() that begins each run from emptyMetrics().
StartResetsMetrics ==
  IF running THEN UNCHANGED vars
  ELSE
    /\ starts < MaxStarts
    /\ starts' = starts + 1
    /\ running' = TRUE
    /\ startTime' = now
    /\ metrics' = emptyMetrics
    /\ emitted' = Append(emitted, simulationEvent(TRUE, now))
    /\ intervalHandle' = freshHandle
    /\ timers' = timers \cup {[id |-> freshHandle, due |-> now + TX_INTERVAL_MS]}
    /\ UNCHANGED << now, windows, config, overrides, processorStates, recentTransactions,
                    tpsWindowStart, tpsWindowCount, inflight, selected, recorded,
                    issued, ops >>

Start ==
  IF running THEN UNCHANGED vars
  ELSE
    /\ starts < MaxStarts
    /\ starts' = starts + 1
    /\ running' = TRUE
    /\ startTime' = now
    /\ emitted' = Append(emitted, simulationEvent(TRUE, now))
    /\ intervalHandle' = freshHandle
    /\ timers' = timers \cup {[id |-> freshHandle, due |-> now + TX_INTERVAL_MS]}
    /\ UNCHANGED << now, windows, config, overrides, processorStates, recentTransactions,
                    metrics, tpsWindowStart, tpsWindowCount, inflight, selected, recorded,
                    issued, ops >>

\* stop() that clears the flag and forgets clearInterval.
StopKeepsInterval ==
  IF ~running THEN UNCHANGED vars
  ELSE
    /\ running' = FALSE
    /\ emitted' = Append(emitted, simulationEvent(FALSE, startTime))
    /\ UNCHANGED << now, windows, config, overrides, processorStates, startTime,
                    intervalHandle, timers, recentTransactions, metrics, tpsWindowStart,
                    tpsWindowCount, inflight, selected, recorded, issued, starts, ops >>

\* stop() that drops the handle without clearInterval.
StopForgetsTimer ==
  IF ~running THEN UNCHANGED vars
  ELSE
    /\ running' = FALSE
    /\ intervalHandle' = NoHandle
    /\ emitted' = Append(emitted, simulationEvent(FALSE, startTime))
    /\ UNCHANGED << now, windows, config, overrides, processorStates, startTime, timers,
                    recentTransactions, metrics, tpsWindowStart, tpsWindowCount, inflight,
                    selected, recorded, issued, starts, ops >>

\* stop() that also abandons the transactions in flight.
StopDropsInflight ==
  IF ~running THEN UNCHANGED vars
  ELSE
    /\ running' = FALSE
    /\ timers' = IF intervalHandle # NoHandle
                   THEN {t \in timers : t.id # intervalHandle} ELSE timers
    /\ intervalHandle' = NoHandle
    /\ inflight' = {}
    /\ emitted' = Append(emitted, simulationEvent(FALSE, startTime))
    /\ UNCHANGED << now, windows, config, overrides, processorStates, startTime,
                    recentTransactions, metrics, tpsWindowStart, tpsWindowCount,
                    selected, recorded, issued, starts, ops >>

Stop ==
  IF ~running THEN UNCHANGED vars
  ELSE
    /\ running' = FALSE
    /\ timers' = IF intervalHandle # NoHandle
                   THEN {t \in timers : t.id # intervalHandle} ELSE timers
    /\ intervalHandle' = NoHandle
    /\ emitted' = Append(emitted, simulationEvent(FALSE, startTime))
    /\ UNCHANGED << now, windows, config, overrides, processorStates, startTime,
                    recentTransactions, metrics, tpsWindowStart, tpsWindowCount, inflight,
                    selected, recorded, issued, starts, ops >>

\* runTransaction(amount) up to its first suspension: the early return when
\* the router returned none, else the synchronous part of processTransaction,
\* which draws the outcome and starts the sleep.
runTransactionIssueCountingDrop(amount, processorId) ==
  IF processorId = NULL
    THEN /\ metrics' = [metrics EXCEPT !.totalTransactions = @ + 1,
                                       !.failedTransactions = @ + 1]
         /\ UNCHANGED << inflight, issued >>
    ELSE /\ issued < MaxTx
         /\ issued' = issued + 1
         /\ UNCHANGED metrics
         /\ \E jitter10 \in Jitters, rand \in Rands :
              LET result == processTransaction(processorStates, processorId,
                                               jitter10, rand)
              IN  inflight' = inflight \cup
                    {[seq |-> issued + 1, processorId |-> processorId,
                      amount |-> amount, status |-> result.status,
                      latencyMs |-> result.latencyMs,
                      due |-> now + result.sleepMs]}

runTransactionIssue(amount, processorId) ==
  IF processorId = NULL
    THEN UNCHANGED << inflight, issued, metrics >>
    ELSE /\ issued < MaxTx
         /\ issued' = issued + 1
         /\ UNCHANGED metrics
         /\ \E jitter10 \in Jitters, rand \in Rands :
              LET result == processTransaction(processorStates, processorId,
                                               jitter10, rand)
              IN  inflight' = inflight \cup
                    {[seq |-> issued + 1, processorId |-> processorId,
                      amount |-> amount, status |-> result.status,
                      latencyMs |-> result.latencyMs,
                      due |-> now + result.sleepMs]}

\* One firing of the interval timer t: fireTransaction and runTransaction up
\* to the await inside processTransaction.
Tick(t) ==
  /\ t \in timers
  /\ now >= t.due
  /\ timers' = (timers \ {t}) \cup {[t EXCEPT !.due = now + TX_INTERVAL_MS]}
  /\ windows' = prunedAll(windows, config, now)
  /\ \E amount \in Amounts, processorId \in Selectable :
       /\ selected' = processorId
       /\ runTransactionIssue(amount, processorId)
  /\ UNCHANGED << now, config, overrides, processorStates, running, startTime,
                  intervalHandle, recentTransactions, tpsWindowStart,
                  tpsWindowCount, emitted, recorded, starts, ops >>

\* The three events runTransaction emits for one completed transaction.
completionEventsMetricsFirst(tx, healthList, metricsCopy) ==
  << [type |-> "metrics", payload |-> metricsCopy],
     [type |-> "transaction", payload |-> tx],
     [type |-> "health", payload |-> healthList] >>

completionEvents(tx, healthList, metricsCopy) ==
  << [type |-> "transaction", payload |-> tx],
     [type |-> "health", payload |-> healthList],
     [type |-> "metrics", payload |-> metricsCopy] >>

\* The sleep of the in-flight transaction x has elapsed: the rest of
\* runTransaction runs to its end in one turn of the event loop.
Complete(x) ==
  /\ x \in inflight
  /\ now >= x.due
  /\ inflight' = inflight \ {x}
  /\ LET w1 == recordEvent(windows, config, now, x.processorId, x.status, x.latencyMs)
         tx == makeTx(metrics.totalTransactions + 1, x.processorId, x.amount, x.status,
                      x.latencyMs, now)
         m == updateMetrics([metrics |-> metrics, tpsWindowCount |-> tpsWindowCount,
                             tpsWindowStart |-> tpsWindowStart], tx,
                            costSavedUsdOf(x.status, tx.costSavedBps, x.amount), now)
     IN  /\ recorded' = [recorded EXCEPT ![x.processorId] =
                           Append(@, [timestamp |-> now, type |-> x.status,
                                      latencyMs |-> x.latencyMs])]
         /\ recentTransactions' = storeTransaction(recentTransactions, tx)
         /\ metrics' = m.metrics
         /\ tpsWindowCount' = m.tpsWindowCount
         /\ tpsWindowStart' = m.tpsWindowStart
         /\ emitted' = emitted \o
              completionEvents(tx, getAllHealth(PROCESSOR_IDS, w1, config, now),
                               m.metrics)
         /\ windows' = prunedAll(w1, config, now)
  /\ UNCHANGED << now, config, overrides, processorStates, running, startTime,
                  intervalHandle, timers, selected, issued, starts, ops >>

\* ------------------------------------------------------------- the clock --
\* Timers fire when the clock reaches their due time: the clock never steps
\* over a pending one.  Interval timers stop holding the clock once the
\* model's transaction budget is spent and the tick could only issue.
tickHeld ==
  \/ issued < MaxTx
  \/ Len(filterCandidates(getAllHealth(PROCESSOR_IDS, windows, config, now), overrides)) = 0

pendingDue ==
  {x.due : x \in inflight} \cup (IF tickHeld THEN {t.due : t \in timers} ELSE {})

AdvanceClock ==
  /\ \E d \in ClockSteps \cup {due - now : due \in pendingDue} :
       /\ d > 0
       /\ now + d <= MaxTime
       /\ \A due \in pendingDue : now + d <= due
       /\ now' = now + d
  /\ UNCHANGED << windows, config, overrides, processorStates, selected, recorded, ops >>
  /\ UNCHANGED engineVars

\* The clock reaches the moment an event of a window is exactly
\* windowSizeMs old, or the millisecond after it.
AdvanceToExpiry ==
  /\ \E p \in ProcSet, k \in {0, 1} :
       \E i \in 1..Len(windows[p]) :
         LET t == windows[p][i].timestamp + config.windowSizeMs + k
         IN  /\ t > now
             /\ t <= MaxTime
             /\ \A due \in pendingDue : t <= due
             /\ now' = t
  /\ UNCHANGED << windows, config, overrides, processorStates, selected, recorded, ops >>
  /\ UNCHANGED engineVars

\* The clock reaches the end of the earliest sleep in progress: a sleep that
\* was started always runs out, whether or not the interval callback due
\* before it has run yet (a timer callback is never early but may be late).
AdvanceToDue ==
  /\ \E x \in inflight :
       /\ x.due > now
       /\ \A y \in inflight : x.due <= y.due
       /\ now' = x.due
  /\ UNCHANGED << windows, config, overrides, processorStates, selected, recorded, ops >>
  /\ UNCHANGED engineVars

\* ------------------------------------------------------ specifications --
\* An operator call under the engine specifications spends one of MaxOps.
Budget == ops < MaxOps /\ ops' = ops + 1

DegradeBudget == ops < MaxDegrades /\ ops' = ops + 1

\* The engine's life cycle: start, stop, ticks and completions, with the
\* behaviour model's degrade/restore switch (a degraded processor is what
\* keeps a transaction in flight across later ticks).
Next ==
  \/ Start
  \/ Stop
  \/ \E t \in timers : Tick(t)
  \/ \E x \in inflight : Complete(x)
  \/ \E p \in ProcSet : DegradeProcessor(p) /\ DegradeBudget
  \/ \E p \in ProcSet : RestoreProcessor(p) /\ DegradeBudget
  \/ GetAllHealth
  \/ AdvanceClock

Spec == Init /\ [][Next]_vars

\* The engine started and left running, under the router's and the
\* tracker's operator calls.
NextOps ==
  \/ Start
  \/ \E t \in timers : Tick(t)
  \/ \E x \in inflight : Complete(x)
  \/ \E p \in ProcSet, s \in OverrideStates : SetOverride(p, s) /\ Budget
  \/ \E patch \in ConfigPatches : UpdateConfig(patch) /\ Budget
  \/ AdvanceClock

SpecOps == Init /\ [][NextOps]_vars

recordedCount == SeqSum([i \in 1..Len(PROCESSOR_IDS) |-> Len(recorded[PROCESSOR_IDS[i]])])

\* The tracker alone, called directly.
NextTracker ==
  \/ \E p \in ProcSet, ev \in EventInputs :
       recordedCount < MaxEvents /\ RecordEvent(p, ev) /\ UNCHANGED ops
  \/ \E patch \in ConfigPatches : UpdateConfig(patch) /\ UNCHANGED ops
  \/ GetAllHealth
  \/ AdvanceClock

SpecTracker == InitTracker /\ [][NextTracker]_vars

\* Router and tracker, called directly.
NextRouter ==
  \/ \E p \in ProcSet, ev \in RouterEventInputs :
       recordedCount < MaxRouterEvents /\ RecordEvent(p, ev) /\ UNCHANGED ops
  \/ \E p \in ProcSet, s \in OverrideStates : SetOverride(p, s) /\ UNCHANGED ops
  \/ \E patch \in RouterPatches : UpdateConfig(patch) /\ UNCHANGED ops
  \/ SelectProcessor

SpecRouter == InitTracker /\ [][NextRouter]_vars

\* The tracker under load: one processor's window filled by recordEvent,
\* read by getHealth.  Windows of freely mixed outcomes
\* hold up to MaxWindow events; windows made of one run of an input followed
\* by one run of another grow to MaxFirstRun + MaxSecondRun events.
changesOfInput(events) ==
  {i \in 1..(Len(events) - 1) :
     << events[i].type, events[i].latencyMs >>
       # << events[i + 1].type, events[i + 1].latencyMs >>}

firstRunOf(events) ==
  IF changesOfInput(events) = {} THEN Len(events)
  ELSE CHOOSE i \in changesOfInput(events) : TRUE

windowAdmitted(events) ==
  \/ Len(events) <= MaxWindow
  \/ /\ Cardinality(changesOfInput(events)) <= 1
     /\ firstRunOf(events) <= MaxFirstRun
     /\ Len(events) - firstRunOf(events) <= MaxSecondRun

loaded == PROCESSOR_IDS[1]

NextHealth ==
  \/ \E ev \in HealthEventInputs :
       /\ RecordEvent(loaded, ev)
       /\ windowAdmitted(windows'[loaded])
       /\ UNCHANGED ops
  \/ \E patch \in HealthPatches : UpdateConfig(patch) /\ UNCHANGED ops

SpecHealth == InitTracker /\ [][NextHealth]_vars

\* The running engine under every operator call: failure profiles,
\* overrides and thresholds change between ticks and completions.
NextControl ==
  \/ Start
  \/ \E t \in timers : Tick(t)
  \/ \E x \in inflight : Complete(x)
  \/ DegradeProcessor(loaded) /\ Budget
  \/ RestoreProcessor(loaded) /\ Budget
  \/ \E p \in ProcSet, s \in OverrideStates : SetOverride(p, s) /\ Budget
  \/ \E patch \in ConfigPatches : UpdateConfig(patch) /\ Budget
  \/ AdvanceClock

SpecControl == Init /\ [][NextControl]_vars

\* Tracker and behaviour model called with registered and unregistered
\* ids; the calls that pass an unregistered id are counted in ops.
NextStale ==
  \/ \E p \in ProcSet, ev \in RouterEventInputs :
       recordedCount < MaxRouterEvents /\ RecordEvent(p, ev) /\ UNCHANGED ops
  \/ \E p \in ProcSet : DegradeProcessor(p) /\ UNCHANGED ops
  \/ \E p \in ProcSet : RestoreProcessor(p) /\ UNCHANGED ops
  \/ \E u \in UnknownIds, ev \in RouterEventInputs : RecordEvent(u, ev) /\ Budget
  \/ \E u \in UnknownIds : DegradeProcessor(u) /\ Budget
  \/ \E u \in UnknownIds : RestoreProcessor(u) /\ Budget
  \/ \E u \in UnknownIds : ProcessTransactionRejected(u) /\ Budget
  \/ GetAllHealth
  \/ AdvanceClock

SpecStale == InitTracker /\ [][NextStale]_vars

\* The backend variant's router under override toggles.
NextBackend ==
  \/ \E id \in ProcSet : BackendToggle(id)
  \/ \E healthMap \in [ProcSet -> BackendHealthChoices] : BackendSelect(healthMap)

SpecBackend == InitTracker /\ [][NextBackend]_vars

\* The engine on its full seed batch: the buffer starts at capacity.
NextFull ==
  \/ Start
  \/ Stop
  \/ \E t \in timers : Tick(t)
  \/ \E x \in inflight : Complete(x)
  \/ AdvanceClock

SpecFull == InitFull /\ [][NextFull]_vars

\* The behaviour model under every draw that decides an outcome, with the
\* failure profiles switched while calls are suspended.
NextProcess ==
  \/ \E p \in ProcSet, amount \in Amounts, jitter10 \in ProcessJitters, rand \in ProcessRands :
       IssueTo(p, amount, jitter10, rand)
  \/ \E x \in inflight : Complete(x)
  \/ DegradeProcessor(loaded) /\ UNCHANGED ops
  \/ RestoreProcessor(loaded) /\ UNCHANGED ops
  \/ AdvanceClock

SpecProcess == InitTracker /\ [][NextProcess]_vars

\* The running engine with one processor degraded and restored, under
\* threshold changes, with the clock taken to the expiry of recorded events.
NextRecovery ==
  \/ Start
  \/ \E t \in timers : Tick(t)
  \/ \E x \in inflight : Complete(x)
  \/ DegradeProcessor(loaded) /\ Budget
  \/ RestoreProcessor(loaded) /\ Budget
  \/ \E patch \in RecoveryPatches : UpdateConfig(patch) /\ UNCHANGED ops
  \/ AdvanceClock
  \/ AdvanceToExpiry

SpecRecovery == Init /\ [][NextRecovery]_vars

\* The engine's life cycle under a degrade or a force-disable call, with the
\* runtime's guarantees: a sleep that was started runs out, and a resumed
\* continuation runs.
NextLive ==
  \/ Start
  \/ Stop
  \/ \E t \in timers : Tick(t)
  \/ \E x \in inflight : Complete(x)
  \/ DegradeProcessor(loaded) /\ DegradeBudget
  \/ SetOverride(loaded, "forceOff") /\ DegradeBudget
  \/ AdvanceClock
  \/ AdvanceToDue

SpecLive ==
  /\ Init
  /\ [][NextLive]_vars
  /\ WF_vars(AdvanceToDue)
  /\ WF_vars(\E x \in inflight : Complete(x))

\* ================================================================ claims ==
statusOf(p) == getHealth(p, windows, config, now).status

candidateIds ==
  LET c == filterCandidates(getAllHealth(PROCESSOR_IDS, windows, config, now), overrides)
  IN  {c[i].processorId : i \in 1..Len(c)}

\* The events ever recorded for p that are inside the window now.
inWindowHistory(p) ==
  SelectSeq(recorded[p], LAMBDA e : e.timestamp >= now - config.windowSizeMs)

\* C1: whatever recordEvent, getAllHealth, updateConfig calls and clock
\* advances came before, the snapshot getHealth(p) returns now counts, in
\* totalRequests and in each of the four rates, no more events than the ones
\* recorded for p with timestamp >= now - windowSizeMs.
C1_NoEventOlderThanWindow ==
  \A p \in ProcSet :
    LET h == getHealth(p, windows, config, now)
        inside == inWindowHistory(p)
    IN  /\ h.totalRequests <= Len(inside)
        /\ h.totalRequests > 0 =>
             /\ h.successRate.d = h.totalRequests
             /\ h.successRate.n <= countByType(inside, "success")
             /\ h.declineRate.n <= countByType(inside, "declined")
             /\ h.errorRate.n <= countByType(inside, "error")
             /\ h.timeoutRate.n <= countByType(inside, "timeout")

\* C1 witness: a window that still holds an expired event next to a live
\* one, after the window size was changed.
C1_Witness ==
  \E p \in ProcSet :
    /\ config.windowSizeMs # DEFAULT_CONFIG.windowSizeMs
    /\ Len(inWindowHistory(p)) > 0
    /\ Len(windows[p]) > Len(inWindowHistory(p))
    /\ getHealth(p, windows, config, now).totalRequests = Len(inWindowHistory(p))

unavailable(p) ==
  \/ overrides[p] = "forceOff"
  \/ statusOf(p) = "down" /\ overrides[p] # "forceOn"

\* C2: selectProcessor() returns null exactly when every registered
\* processor is force-disabled or is down without a force-enabled override;
\* otherwise every draw returns a registered processor id.
C2_NoneIffAllUnavailable ==
  IF \A p \in ProcSet : unavailable(p)
    THEN Selectable = {NULL}
    ELSE Selectable # {} /\ Selectable \subseteq ProcSet

\* C2 witness: selectProcessor() has returned null with one processor
\* force-disabled and another excluded by its down status alone.
C2_Witness ==
  /\ selected = NULL
  /\ \A p \in ProcSet : unavailable(p)
  /\ \E p \in ProcSet : overrides[p] = "forceOff"
  /\ \E p \in ProcSet : overrides[p] = NULL /\ statusOf(p) = "down"

\* C3: no draw makes selectProcessor() return a force-disabled processor,
\* whatever its health, and a force-enabled processor is a candidate whatever
\* its health (returned by every draw when it is the only candidate).
C3_OverridesWin ==
  \A p \in ProcSet :
    /\ overrides[p] = "forceOff" => p \notin Selectable /\ p \notin candidateIds
    /\ overrides[p] = "forceOn" =>
         /\ p \in candidateIds
         /\ Selectable # {NULL}
         /\ candidateIds = {p} => Selectable = {p}

\* C3 witness: a force-enabled processor whose status is down has been
\* selected while a healthy processor was force-disabled.
C3_Witness ==
  \E p, q \in ProcSet :
    /\ overrides[p] = "forceOn" /\ statusOf(p) = "down" /\ selected = p
    /\ overrides[q] = "forceOff" /\ statusOf(q) = "healthy"

\* C4: every id selectProcessor() can return is in the filtered candidate
\* set, so a processor that is down now is returned only under forceOn.
C4_SelectedIsCandidate ==
  \A p \in Selectable \ {NULL} :
    /\ p \in candidateIds
    /\ statusOf(p) = "down" => overrides[p] = "forceOn"

\* C4 witness: the weighted walk has chosen among two candidates while the
\* first processor of the registry was down and excluded.
C4_Witness ==
  /\ Cardinality(candidateIds) = 2
  /\ selected \in candidateIds
  /\ PROCESSOR_IDS[1] \notin candidateIds
  /\ statusOf(PROCESSOR_IDS[1]) = "down"

\* The transactions of the buffer whose status is in the set S.
countStatus(buffer, S) == Len(SelectSeq(buffer, LAMBDA tx : tx.status \in S))

countersAddUp(m) ==
  m.totalTransactions = m.successfulTransactions + m.declinedTransactions
                          + m.failedTransactions

\* C5: after seeding and after every completion, in whatever order the
\* transactions complete, totalTransactions is the sum of the successful,
\* declined and failed counters, in the engine's metrics and in every metrics
\* snapshot emitted; with every transaction still in the buffer, each counter
\* is the number of transactions of its class: success, declined, and error
\* or timeout for failed.
C5_CountersPartitionTotal ==
  /\ countersAddUp(metrics)
  /\ \A i \in 1..Len(emitted) :
       emitted[i].type = "metrics" => countersAddUp(emitted[i].payload)
  /\ Len(recentTransactions) < MAX_STORED_TRANSACTIONS =>
       /\ metrics.totalTransactions = Len(recentTransactions)
       /\ metrics.successfulTransactions = countStatus(recentTransactions, {"success"})
       /\ metrics.declinedTransactions = countStatus(recentTransactions, {"declined"})
       /\ metrics.failedTransactions = countStatus(recentTransactions, {"error", "timeout"})

\* C5 witness: after a seeded error, the second transaction issued has
\* completed as a timeout while the first is still in flight.
C5_Witness ==
  /\ \E x \in inflight : x.seq = 1
  /\ Len(recentTransactions) = MaxSeed + 1
  /\ recentTransactions[1].status = "timeout"
  /\ recentTransactions[Len(recentTransactions)].status = "error"
  /\ metrics.failedTransactions = 2

\* A step in which the interval timer fired.
tickStep ==
  \E t \in timers :
    /\ now >= t.due
    /\ timers' = (timers \ {t}) \cup {[t EXCEPT !.due = now + TX_INTERVAL_MS]}

\* A tick whose selectProcessor() call returned none.
droppedTick == tickStep /\ selected' = NULL

insideWindow(events) ==
  SelectSeq(events, LAMBDA e : e.timestamp >= now - config.windowSizeMs)

\* C6 as stated: a tick on which selectProcessor() returns none changes
\* neither the metrics, nor the buffer, nor the contents of any health
\* window, emits nothing, and leaves the engine running with its timer armed.
C6_DroppedTickChangesNothing ==
  [][droppedTick =>
       /\ UNCHANGED << metrics, recentTransactions, windows, emitted >>
       /\ running'
       /\ \E t \in timers' : t.id = intervalHandle']_vars

\* C6 amended: a tick on which selectProcessor() returns none changes
\* neither the metrics, nor the TPS counter, nor the buffer, records no
\* event and issues no transaction, emits nothing, and leaves the engine
\* running with its timer armed for the next interval; of the health windows
\* it removes exactly the events older than now - windowSizeMs, so every
\* health snapshot reads the same before and after.
C6_DroppedTickOnlyPrunes ==
  [][droppedTick =>
       /\ UNCHANGED << metrics, tpsWindowCount, tpsWindowStart, recentTransactions,
                       emitted, recorded, inflight, issued >>
       /\ \A p \in ProcSet : windows'[p] = insideWindow(windows[p])
       /\ getAllHealth(PROCESSOR_IDS, windows', config, now)
            = getAllHealth(PROCESSOR_IDS, windows, config, now)
       /\ running /\ running'
       /\ intervalHandle' = intervalHandle
       /\ \E t \in timers' : t.id = intervalHandle /\ t.due = now + TX_INTERVAL_MS]_vars

\* C6 witness: the state right after a dropped tick that found an event
\* expired since the tick before it and pruned it.
C6_Witness ==
  /\ selected = NULL
  /\ running
  /\ inflight = {}
  /\ \E t \in timers : t.due = now + TX_INTERVAL_MS
  /\ \E p \in ProcSet :
       /\ windows[p] = << >>
       /\ \E i \in 1..Len(recorded[p]) :
            /\ recorded[p][i].timestamp < now - config.windowSizeMs
            /\ recorded[p][i].timestamp >= now - TX_INTERVAL_MS - config.windowSizeMs

eventsOfType(type) == SelectSeq(emitted, LAMBDA e : e.type = type)

\* C7: the events emitted for completed transactions come in whole triples
\* transaction, health, metrics: every transaction event is directly followed
\* by a health event and that by a metrics event, no health or metrics event
\* stands anywhere else, there is exactly one triple per completed
\* transaction, and each triple carries a different transaction, also with
\* other transactions in flight.
C7_EventTriples ==
  /\ \A i \in 1..Len(emitted) :
       /\ emitted[i].type = "transaction" =>
            /\ i + 2 <= Len(emitted)
            /\ emitted[i + 1].type = "health"
            /\ emitted[i + 2].type = "metrics"
       /\ emitted[i].type = "health" => i > 1 /\ emitted[i - 1].type = "transaction"
       /\ emitted[i].type = "metrics" => i > 1 /\ emitted[i - 1].type = "health"
  /\ Len(eventsOfType("transaction")) = issued - Cardinality(inflight)
  /\ \A i, j \in 1..Len(emitted) :
       (emitted[i].type = "transaction" /\ emitted[j].type = "transaction" /\ i # j)
         => emitted[i].payload # emitted[j].payload

\* C7 witness: a transaction's three events are out, a stop and a start
\* have put their events behind them, and the transaction issued first is
\* still in flight.
C7_Witness ==
  /\ \E x \in inflight : x.seq = 1
  /\ Len(eventsOfType("transaction")) = 1
  /\ Len(emitted) >= 6
  /\ emitted[Len(emitted)].type = "simulation"

\* A step in which a transaction completed: its three events are appended.
completionStep == Len(emitted') = Len(emitted) + 3

\* C8: a completion is one step.  The step that emits a transaction's events
\* has also recorded its outcome as the newest event of its processor's
\* window, put it at the head of the buffer and counted it once; the health
\* event is the snapshot of the windows as the step leaves them and counts
\* the outcome, the metrics event is the metrics as the step leaves them,
\* and for the k-th completion its totalTransactions is the seed count plus k;
\* nothing else changes in the step but the completed transaction leaving
\* the set in flight.
C8_CompletionIsOneStep ==
  [][completionStep =>
       LET n == Len(emitted)
           tx == emitted'[n + 1].payload
           health == emitted'[n + 2].payload
           k == Len(eventsOfType("metrics")) + 1
           window == windows'[tx.processorId]
       IN  /\ emitted'[n + 1].type = "transaction"
           /\ emitted'[n + 3].payload = metrics'
           /\ metrics'.totalTransactions = metrics.totalTransactions + 1
           /\ metrics'.totalTransactions = MaxSeed + k
           /\ recentTransactions'[1] = tx
           /\ Len(recentTransactions') = Len(recentTransactions) + 1
           /\ window # << >>
           /\ window[Len(window)] = [timestamp |-> now, type |-> tx.status,
                                      latencyMs |-> tx.latencyMs]
           /\ health = getAllHealth(PROCESSOR_IDS, windows', config, now)
           /\ \E i \in 1..Len(health) :
                /\ health[i].processorId = tx.processorId
                /\ health[i].totalRequests = Len(window)
                /\ health[i].totalRequests
                     = Len(insideWindow(windows[tx.processorId])) + 1
           /\ \E x \in inflight : inflight' = inflight \ {x} /\ x.status = tx.status
           /\ UNCHANGED << now, config, overrides, processorStates, running, startTime,
                           intervalHandle, timers, issued >>]_vars

\* C8 witness: two completions, the second of a transaction issued before
\* the first one's (issue time = completion time less the latency slept).
C8_Witness ==
  LET txs == eventsOfType("transaction")
  IN  /\ Len(txs) = 2
      /\ txs[1].payload.status # "timeout" /\ txs[2].payload.status # "timeout"
      /\ txs[2].payload.timestamp - txs[2].payload.latencyMs
           < txs[1].payload.timestamp - txs[1].payload.latencyMs
      /\ metrics.totalTransactions = MaxSeed + 2

timerIds(ts) == {t.id : t \in ts}

\* C9: the engine is stopped or running.  A step that leaves the running
\* flag as it was (start() while running and stop() while stopped among
\* them) leaves the start timestamp, the interval handle and the set of tick
\* timers as they were and emits no simulation event; a step that starts the
\* engine sets the start timestamp to the clock, arms exactly one tick timer
\* and emits one simulation event {running: true, startTime}; a step that
\* stops it clears the timer, keeps the start timestamp and emits one
\* simulation event {running: false, startTime}.
C9_TwoStateMachine ==
  [][/\ running' = running =>
          /\ UNCHANGED << startTime, intervalHandle >>
          /\ timerIds(timers') = timerIds(timers)
          /\ eventsOfType("simulation")' = eventsOfType("simulation")
     /\ (~running /\ running') =>
          /\ startTime' = now
          /\ emitted' = Append(emitted, simulationEvent(TRUE, now))
          /\ timers' = {[id |-> intervalHandle', due |-> now + TX_INTERVAL_MS]}
     /\ (running /\ ~running') =>
          /\ startTime' = startTime
          /\ emitted' = Append(emitted, simulationEvent(FALSE, startTime))
          /\ timers' = {}
          /\ intervalHandle' = NoHandle
     /\ Cardinality(timers') = IF running' THEN 1 ELSE 0]_vars

\* C9 witness: started, stopped and started again at a later clock, three
\* simulation events in all, with ticks having fired in between.
C9_Witness ==
  /\ running
  /\ starts = 2
  /\ startTime > 0
  /\ issued > 0
  /\ Len(eventsOfType("simulation")) = 3
  /\ emitted[Len(emitted)] = simulationEvent(TRUE, startTime)

\* C10 as stated: from the step in which stop() returns and for as long as
\* the engine stays stopped, the health windows, the metrics and the buffer
\* are not changed by any step.
C10_NothingMutatesWhileStopped ==
  [][((running \/ starts > 0) /\ ~running')
       => UNCHANGED << windows, metrics, recentTransactions >>]_vars

\* C10 amended: stop() itself changes neither the health windows, nor the
\* metrics, nor the buffer, nor the set of transactions in flight.  While
\* the engine is stopped no tick fires and no transaction is issued; the
\* transactions in flight when stop() was called still complete, each in one
\* whole step that records one event, stores one transaction, counts it once
\* and emits its three events, and a health query still prunes the events
\* older than the window; no other step changes windows, metrics or buffer.
C10_StopCancelsOnlyTheTickLoop ==
  [][/\ (running /\ ~running') =>
          UNCHANGED << windows, metrics, tpsWindowCount, tpsWindowStart,
                       recentTransactions, recorded, inflight, issued >>
     /\ (~running /\ ~running') =>
          /\ timers' = {} /\ issued' = issued
          /\ \/ /\ UNCHANGED << metrics, tpsWindowCount, tpsWindowStart,
                                 recentTransactions, recorded, inflight, emitted >>
                /\ \A p \in ProcSet :
                     windows'[p] \in {windows[p], insideWindow(windows[p])}
             \/ /\ completionStep
                /\ \E x \in inflight :
                     /\ inflight' = inflight \ {x}
                     /\ recorded' = [recorded EXCEPT ![x.processorId] =
                                       Append(@, [timestamp |-> now, type |-> x.status,
                                                  latencyMs |-> x.latencyMs])]
                     /\ windows' = prunedAll([windows EXCEPT ![x.processorId] =
                                                Append(@, recorded'[x.processorId][
                                                            Len(recorded'[x.processorId])])],
                                             config, now)
                /\ recentTransactions'
                     = << emitted'[Len(emitted) + 1].payload >> \o recentTransactions
                /\ metrics'.totalTransactions = metrics.totalTransactions + 1
                /\ countersAddUp(metrics')]_vars

\* C10 witness: the engine is stopped and the last thing emitted, right
\* after the simulation event of the stop, is the triple of a transaction
\* that was in flight when stop() was called.
C10_Witness ==
  /\ ~running
  /\ Len(emitted) >= 5
  /\ emitted[Len(emitted)].type = "metrics"
  /\ emitted[Len(emitted) - 3] = simulationEvent(FALSE, startTime)
  /\ metrics.totalTransactions > MaxSeed

\* The window getHealth(p) reads: the stored one, pruned.
windowOf(p) == pruneWindow(windows[p], config, now)

onlyOfTypes(events, types) == \A i \in 1..Len(events) : events[i].type \in types

defaultThresholds ==
  /\ config.degradedThreshold = DEFAULT_CONFIG.degradedThreshold
  /\ config.downThreshold = DEFAULT_CONFIG.downThreshold

\* C11: under the default thresholds, a window holding only success and
\* declined events, in any mix, number and order, gets status healthy from
\* getHealth, with declineRate the fraction of declined events.
C11_DeclinesNeverDepressHealth ==
  \A p \in ProcSet :
    LET events == windowOf(p)
        h == getHealth(p, windows, config, now)
    IN  (defaultThresholds /\ events # << >> /\ onlyOfTypes(events, {"success", "declined"}))
          => /\ h.status = "healthy"
             /\ h.declineRate.n * Len(events)
                  = countByType(events, "declined") * h.declineRate.d

\* C11 witness: ten declined then ten success events with minSamples 3, so
\* that the status comes from the thresholds and the recent sample.
C11_Witness ==
  LET events == windowOf(loaded)
  IN  /\ config.minSamples = 3
      /\ Len(events) = 20
      /\ onlyOfTypes(SubSeq(events, 1, 10), {"declined"})
      /\ onlyOfTypes(SubSeq(events, 11, 20), {"success"})
      /\ statusOf(loaded) = "healthy"

\* C12: under the default thresholds, a window of at least minSamples
\* events, all of them error or timeout, gets status down and
\* errorRate + timeoutRate = 1; ten error events with minSamples 3 give
\* status down and errorRate > 0.9.
C12_AllFailedIsDown ==
  \A p \in ProcSet :
    LET events == windowOf(p)
        h == getHealth(p, windows, config, now)
    IN  (defaultThresholds /\ Len(events) >= config.minSamples /\ events # << >>
           /\ onlyOfTypes(events, {"error", "timeout"}))
          => /\ h.status = "down"
             /\ h.errorRate.n * h.timeoutRate.d + h.timeoutRate.n * h.errorRate.d
                  = h.errorRate.d * h.timeoutRate.d
             /\ (config.minSamples = 3 /\ Len(events) = 10
                   /\ onlyOfTypes(events, {"error"}))
                  => h.errorRate.n * 10 > 9 * h.errorRate.d

\* C12 witness: ten consecutive error events, minSamples 3.
C12_Witness ==
  LET events == windowOf(loaded)
  IN  /\ config.minSamples = 3
      /\ Len(events) = 10
      /\ onlyOfTypes(events, {"error"})
      /\ statusOf(loaded) = "down"

failedCount(events) == countByType(events, "error") + countByType(events, "timeout")

\* C13: a window of at least minSamples events whose full-window technical
\* availability (total - errors - timeouts) / total is below degradedThreshold
\* gets status degraded or down, never healthy, in whatever order the events
\* came.
C13_LowAvailabilityNeverHealthy ==
  \A p \in ProcSet :
    LET events == windowOf(p)
    IN  (events # << >> /\ Len(events) >= config.minSamples
           /\ (Len(events) - failedCount(events)) * 100
                < config.degradedThreshold * Len(events))
          => statusOf(p) \in {"degraded", "down"}

\* C13 witness: the window is below the threshold while its recent sample
\* alone is fault-free: an error followed by successes.
C13_Witness ==
  LET events == windowOf(loaded)
  IN  /\ Len(events) >= config.minSamples
      /\ Len(events) > config.recentSampleSize
      /\ events[1].type = "error"
      /\ failedCount(SliceLast(events, config.recentSampleSize)) = 0
      /\ statusOf(loaded) = "degraded"

\* The window with every latency replaced by latencyMs.
withLatency(events, latencyMs) ==
  [i \in 1..Len(events) |-> [events[i] EXCEPT !.latencyMs = latencyMs]]

\* Latencies from none to far beyond the 3000 ms at which the latency share
\* of the score reaches 0.
LatencyChoices == {0, 100, 2500, 60000}

\* C14: the status does not depend on the latencies: the window with all its
\* latencies replaced by any one value gets the status the window gets; an
\* all-success window is healthy; a larger latency never gives a larger
\* score; and an all-success window at 2500 ms scores above 60 and below 100.
C14_LatencyNeverFlipsStatus ==
  \A p \in ProcSet :
    LET events == windowOf(p)
        h == getHealth(p, windows, config, now)
        relabelled == {[latencyMs |-> l,
                        health |-> healthOf(p, withLatency(events, l), config, now)] :
                         l \in LatencyChoices}
    IN  /\ \A r \in relabelled : r.health.status = h.status
        /\ (defaultThresholds /\ onlyOfTypes(events, {"success"})) => h.status = "healthy"
        /\ \A r1, r2 \in relabelled :
             r1.latencyMs <= r2.latencyMs => r1.health.score >= r2.health.score
        /\ (events # << >> /\ onlyOfTypes(events, {"success"})
              /\ \A i \in 1..Len(events) : events[i].latencyMs = 2500)
             => h.score > 60 /\ h.score < 100

\* C14 witness: ten success events at 2500 ms with minSamples 3: healthy,
\* score 75.
C14_Witness ==
  LET events == windowOf(loaded)
      h == getHealth(loaded, windows, config, now)
  IN  /\ config.minSamples = 3
      /\ Len(events) = 10
      /\ onlyOfTypes(events, {"success"})
      /\ \A i \in 1..Len(events) : events[i].latencyMs = 2500
      /\ h.status = "healthy"
      /\ h.score = 75

neutralBaseline(h) ==
  /\ h.status = "healthy"
  /\ h.score = 100
  /\ h.successRate.n = h.successRate.d
  /\ h.declineRate.n = 0 /\ h.errorRate.n = 0 /\ h.timeoutRate.n = 0
  /\ h.totalRequests = 0

\* C15: getHealth of a processor whose window is empty once pruned (never
\* used, or every event older than the window), and of an id the tracker
\* does not know, returns status healthy, score 100, successRate 1, the
\* other three rates 0 and totalRequests 0.
C15_EmptyWindowIsNeutral ==
  /\ \A p \in ProcSet :
       windowOf(p) = << >> => neutralBaseline(getHealth(p, windows, config, now))
  /\ neutralBaseline(getHealth("unregistered", windows, config, now))

\* C15 witness: a processor whose stored window still holds failed events,
\* every one of them aged out of the window.
C15_Witness ==
  \E p \in ProcSet :
    /\ windows[p] # << >>
    /\ failedCount(windows[p]) = Len(windows[p])
    /\ windowOf(p) = << >>
    /\ getHealth(p, windows, config, now).totalRequests = 0

\* C16: in every snapshot with totalRequests > 0 the four rates are the four
\* outcome counts over totalRequests and the counts add up to totalRequests,
\* so the rates add up to 1.
C16_RatesPartitionWindow ==
  \A p \in ProcSet :
    LET h == getHealth(p, windows, config, now)
    IN  h.totalRequests > 0 =>
          /\ h.successRate.d = h.totalRequests /\ h.declineRate.d = h.totalRequests
          /\ h.errorRate.d = h.totalRequests /\ h.timeoutRate.d = h.totalRequests
          /\ h.successRate.n + h.declineRate.n + h.errorRate.n + h.timeoutRate.n
               = h.totalRequests

\* C16 witness: a window holding all four outcomes.
C16_Witness ==
  LET h == getHealth(loaded, windows, config, now)
  IN  /\ h.totalRequests = 4
      /\ h.successRate.n = 1 /\ h.declineRate.n = 1
      /\ h.errorRate.n = 1 /\ h.timeoutRate.n = 1

\* The candidates selectProcessor() weighs in the current state, and their
\* routing weights.
candidatesNow ==
  filterCandidates(getAllHealth(PROCESSOR_IDS, windows, config, now), overrides)

feeOf(h) == ConfigOf(h.processorId).costPerTransaction

\* Of the unit intervals the cursor Math.random() * totalWeight falls in, the
\* number on which the walk returns candidate i.
drawShare(weights, i) ==
  Cardinality({u \in 1..SeqSum(weights) : walk(weights, 2 * u - 1, 1) = i})

\* C17: of two candidates with the same health score and different fees,
\* the cheaper has the strictly larger routing weight and is returned on
\* strictly more of the cursor's range.
C17_CheaperSelectedMoreOften ==
  LET weights == weightsOf(candidatesNow)
  IN  \A i, j \in 1..Len(candidatesNow) :
        (candidatesNow[i].score = candidatesNow[j].score
           /\ feeOf(candidatesNow[i]) < feeOf(candidatesNow[j]))
          => /\ weights[i] > weights[j]
             /\ drawShare(weights, i) > drawShare(weights, j)

\* C18: the bonus added to a candidate's score is
\* round((MAX_COST - fee) / MAX_COST * 5); the cheapest registered processor
\* gets 5 and the most expensive gets 0.
C18_CheapestGetsFullBonus ==
  LET weights == weightsOf(candidatesNow)
  IN  \A i \in 1..Len(candidatesNow) :
        LET bonus == weights[i] - candidatesNow[i].score
        IN  /\ bonus = Round((MAX_COST - feeOf(candidatesNow[i])) * 5, MAX_COST)
            /\ feeOf(candidatesNow[i]) = MAX_COST => bonus = 0
            /\ (\A p \in ProcSet :
                  feeOf(candidatesNow[i]) <= ConfigOf(p).costPerTransaction)
                 => bonus = 5

\* C19: a processor whose status is degraded, with no override, is a
\* candidate, and its routing weight is negligible next to that of a healthy
\* candidate: at most a tenth of it.
C19_DegradedWeighsNearZero ==
  LET weights == weightsOf(candidatesNow)
  IN  \A p \in ProcSet :
        (statusOf(p) = "degraded" /\ overrides[p] = NULL)
          => /\ p \in candidateIds
             /\ \A i, j \in 1..Len(candidatesNow) :
                  (candidatesNow[i].processorId = p
                     /\ candidatesNow[j].status = "healthy")
                    => 10 * weights[i] <= weights[j]

\* authRate recomputed from a sequence of transactions: approved over all,
\* 0 for the empty sequence.
authRateFromScratch(txs) ==
  IF Len(txs) = 0 THEN Frac(0, 1)
  ELSE Frac(countStatus(txs, {"success"}), Len(txs))

sameRate(a, b) == a.d > 0 /\ b.d > 0 /\ a.n * b.d = b.n * a.d

\* C20: after seeding and after every completion the authRate the engine
\* maintains equals the approved share recomputed from the transactions
\* counted so far (seeds included, all still in the buffer); every metrics
\* snapshot emitted carries successfulTransactions / totalTransactions; and
\* the metrics with nothing counted have authRate 0.
C20_AuthRateMatchesRecount ==
  /\ sameRate(emptyMetrics.authRate, authRateFromScratch(<< >>))
  /\ Len(recentTransactions) < MAX_STORED_TRANSACTIONS =>
       sameRate(metrics.authRate, authRateFromScratch(recentTransactions))
  /\ \A i \in 1..Len(emitted) :
       emitted[i].type = "metrics" =>
         sameRate(emitted[i].payload.authRate,
                  Frac(emitted[i].payload.successfulTransactions,
                       emitted[i].payload.totalTransactions))

\* C20 witness: seed and live transactions all counted, approved and not
\* approved among them, the newest an approved transaction of a degraded
\* processor that was in flight for longer than a tick interval.
C20_Witness ==
  /\ metrics.totalTransactions = MaxSeed + MaxTx
  /\ metrics.authRate.n > 0
  /\ metrics.authRate.n < metrics.authRate.d
  /\ recentTransactions[1].status = "success"
  /\ recentTransactions[1].latencyMs > TX_INTERVAL_MS

\* A step in which some override changed.
overrideStep == overrides' # overrides

\* The transactions a step puts in flight.
issuedBy == inflight' \ inflight

\* C21: a transaction issued by a tick never goes to a processor that is
\* force-disabled when the tick fires; a setOverride call changes the entry
\* of one processor only, getOverride then returns the state set (null after
\* a clear), and the call touches neither the transactions in flight nor
\* windows, metrics or buffer; a transaction in flight completes for the
\* processor and with the outcome fixed at issue, and its event is recorded
\* for that processor, also when the processor has been force-disabled since.
C21_OverrideNotRetroactive ==
  [][/\ \A x \in issuedBy :
          /\ getOverride(overrides, x.processorId) # "forceOff"
          /\ getOverride(overrides', x.processorId) # "forceOff"
     /\ overrideStep =>
          /\ \E p \in ProcSet, s \in OverrideStates :
               /\ getOverride(overrides', p) = s
               /\ \A q \in ProcSet \ {p} :
                    getOverride(overrides', q) = getOverride(overrides, q)
          /\ UNCHANGED << inflight, windows, recorded, metrics, recentTransactions,
                          emitted, issued >>
     /\ completionStep =>
          \E x \in inflight :
            LET tx == emitted'[Len(emitted) + 1].payload
            IN  /\ inflight' = inflight \ {x}
                /\ tx.processorId = x.processorId
                /\ tx.status = x.status /\ tx.latencyMs = x.latencyMs
                /\ recorded'[x.processorId]
                     = Append(recorded[x.processorId],
                              [timestamp |-> now, type |-> x.status,
                               latencyMs |-> x.latencyMs])
                /\ windows'[x.processorId] # << >>
                /\ windows'[x.processorId][Len(windows'[x.processorId])].type = x.status
                /\ UNCHANGED overrides]_vars

\* C21 witness: a processor was force-disabled while its transaction was in
\* flight, and the transaction has completed and been recorded for it at this
\* clock with the override still in place: the processor is no candidate.
C21_Witness ==
  \E p \in ProcSet :
    /\ getOverride(overrides, p) = "forceOff"
    /\ p \notin candidateIds
    /\ recentTransactions # << >>
    /\ recentTransactions[1].processorId = p
    /\ recentTransactions[1].timestamp = now
    /\ recentTransactions[1].timestamp - recentTransactions[1].latencyMs < now
    /\ windows[p] # << >>
    /\ windows[p][Len(windows[p])].timestamp = now
    /\ inflight = {}
    /\ emitted[Len(emitted)].type = "metrics"

\* The two failure profiles a processor can be left in by a whole call.
wholeProfiles ==
  {[degraded |-> FALSE, errorRate |-> 5, timeoutRate |-> 3, declineRate |-> 10,
    latencyMultiplier |-> 1],
   [degraded |-> TRUE, errorRate |-> 35, timeoutRate |-> 40, declineRate |-> 10,
    latencyMultiplier |-> 40]}

\* What a tick firing in the current state can put in flight for processor p:
\* the outcomes processTransaction draws from the profile p has now.
issuableNow(p) ==
  {[status |-> r.status, latencyMs |-> r.latencyMs, due |-> now + r.sleepMs] :
     r \in {processTransaction(processorStates, p, jitter10, rand) :
              jitter10 \in Jitters, rand \in Rands}}

\* C22: operator calls are whole steps between ticks.  A call leaves a
\* processor's failure profile either the normal or the degraded one, never
\* a mix, and issues nothing itself; every tick reads the profile, the
\* overrides and the thresholds as the last call left them: the processor it
\* selects is a candidate under the overrides and thresholds in force when it
\* fires, the outcome and latency it draws come from the profile in force, and
\* it drops the transaction only when no candidate is left under them.
C22_TicksReadLatestOperatorState ==
  [][/\ \A p \in ProcSet : processorStates'[p] \in wholeProfiles
     /\ (processorStates' # processorStates \/ overrides' # overrides
           \/ config' # config) =>
          /\ issuedBy = {}
          /\ UNCHANGED << timers, inflight, selected >>
     /\ \A x \in issuedBy :
          /\ tickStep
          /\ x.processorId \in candidateIds
          /\ [status |-> x.status, latencyMs |-> x.latencyMs, due |-> x.due]
               \in issuableNow(x.processorId)
          /\ UNCHANGED << processorStates, overrides, config >>
     /\ droppedTick => candidateIds = {}]_vars

\* C22 witness: two operator calls made, one degrading the first processor
\* and one force-disabling another; the transaction in flight for the first
\* processor carries the degraded profile's latency, so the tick that issued
\* it fired after the degrade call.
C22_Witness ==
  /\ ops = 2
  /\ processorStates[loaded] \in wholeProfiles
  /\ \E x \in inflight :
       /\ x.processorId = loaded
       /\ x.latencyMs > TX_INTERVAL_MS
       /\ processorStates[loaded].degraded
       /\ \E q \in ProcSet \ {loaded} : getOverride(overrides, q) = "forceOff"

\* Most recent first: timestamps never increase down the buffer.
newestFirst(buffer) ==
  \A i, j \in 1..Len(buffer) : i < j => buffer[i].timestamp >= buffer[j].timestamp

\* C23: a tick issues its transaction whatever is in flight and leaves the
\* transactions in flight as they are; a transaction completes when its own
\* latency has elapsed, whether or not transactions issued before it are
\* still in flight, and no transaction left in flight was due earlier; the
\* completing transaction's event becomes the newest of its processor's
\* window, it goes to the head of the buffer and is counted at once, so the
\* buffer lists transactions in completion order, the latest completion
\* first.
C23_RecordedInCompletionOrder ==
  [][/\ issuedBy # {} =>
          /\ tickStep
          /\ inflight' = inflight \cup issuedBy
          /\ Cardinality(issuedBy) = 1
          /\ \A x \in issuedBy : x.seq = issued + 1 /\ x.due > now
     /\ completionStep =>
          \E x \in inflight :
            LET tx == recentTransactions'[1]
                window == windows'[x.processorId]
            IN  /\ now >= x.due
                /\ inflight' = inflight \ {x}
                /\ \A y \in inflight' : y.due >= x.due
                /\ recentTransactions' = << tx >> \o recentTransactions
                /\ tx.processorId = x.processorId /\ tx.status = x.status
                /\ tx.timestamp = now
                /\ tx.id = metrics'.totalTransactions
                /\ metrics'.totalTransactions = metrics.totalTransactions + 1
                /\ window # << >>
                /\ window[Len(window)]
                     = [timestamp |-> now, type |-> x.status, latencyMs |-> x.latencyMs]
                /\ \A y \in inflight' :
                     recorded'[y.processorId]
                       = IF y.processorId = x.processorId
                           THEN Append(recorded[y.processorId], window[Len(window)])
                           ELSE recorded[y.processorId]
     /\ newestFirst(recentTransactions')]_vars

\* C23 witness: A was issued first and B while A was in flight; B completed
\* first and A after it, so A heads the buffer with B right behind it (the
\* issue time of a transaction that did not time out is its completion time
\* less its latency).
C23_Witness ==
  /\ Len(recentTransactions) >= 2
  /\ LET A == recentTransactions[1]
         B == recentTransactions[2]
     IN  /\ A.status # "timeout" /\ B.status # "timeout"
         /\ A.timestamp - A.latencyMs < B.timestamp - B.latencyMs
         /\ B.timestamp - B.latencyMs < A.timestamp
         /\ B.timestamp < A.timestamp
         /\ A.id = B.id + 1
         /\ metrics.totalTransactions = A.id
         /\ windows[A.processorId] # << >>
         /\ windows[A.processorId][Len(windows[A.processorId])].timestamp = A.timestamp

\* What the tracker and the behaviour model answer, in the current state, to
\* a call that passes the unregistered id u: nothing written, empty results.
toleratesUnknown(u) ==
  /\ \A ev \in EventInputs :
       recordEvent(windows, config, now, u, ev.type, ev.latencyMs) = windows
  /\ neutralBaseline(getHealth(u, windows, config, now))
  /\ prunedAll(windows, config, now) = [p \in ProcSet |-> windowOf(p)]
  /\ degradeProcessor(processorStates, u) = processorStates
  /\ restoreProcessor(processorStates, u) = processorStates
  /\ isProcessorDegraded(processorStates, u) = FALSE

\* A step made by a call that passed an unregistered id.
unknownIdStep == ops' # ops

\* C24 as stated: for an id that is not in the registry recordEvent leaves
\* every window as it is, getHealth returns the neutral baseline,
\* degradeProcessor and restoreProcessor leave every failure profile as it
\* is, isProcessorDegraded returns false, and processTransaction does not
\* throw; no such call changes any state.
C24_UnknownIdNeverRaises ==
  [][/\ \A u \in UnknownIds :
          toleratesUnknown(u) /\ ~processTransactionThrows(processorStates, u)
     /\ unknownIdStep =>
          UNCHANGED << windows, recorded, processorStates, config, overrides >>]_vars

\* C24 amended: for an id that is not in the registry recordEvent leaves
\* every window as it is, getHealth returns the neutral baseline,
\* degradeProcessor and restoreProcessor leave every failure profile as it
\* is and isProcessorDegraded returns false; processTransaction does raise:
\* it rejects with an "Unknown processor" error before drawing an outcome,
\* for unregistered ids and for no registered one.  No such call changes any
\* state.
C24_UnknownIdToleratedButProcessRejects ==
  [][/\ \A u \in UnknownIds :
          toleratesUnknown(u) /\ processTransactionThrows(processorStates, u)
     /\ \A p \in ProcSet : ~processTransactionThrows(processorStates, p)
     /\ unknownIdStep =>
          UNCHANGED << now, windows, recorded, processorStates, config, overrides,
                       selected, metrics, recentTransactions, inflight, emitted >>]_vars

\* C24 witness: calls with an unregistered id have been made on a tracker
\* that holds events and a behaviour model with a degraded processor.
C24_Witness ==
  /\ ops = MaxOps
  /\ DOMAIN windows = ProcSet
  /\ DOMAIN processorStates = ProcSet
  /\ \E p \in ProcSet : windowOf(p) # << >>
  /\ \E p \in ProcSet : isProcessorDegraded(processorStates, p)
  /\ \A u \in UnknownIds : ~isProcessorDegraded(processorStates, u)

\* The ids the backend router keeps as candidates under a health map.
backendCandidateIds(healthMap, ov) ==
  LET c == backendFilterCandidates(PROCESSORS, healthMap, ov)
  IN  {c[i].id : i \in 1..Len(c)}

\* C25: in the backend variant a toggle of a processor that is not
\* force-disabled (Disable) makes the router skip it under every health map,
\* and a toggle of a force-disabled processor (Enable) returns it to the
\* routing it had before any toggle: it is a candidate when its status is not
\* down and is again excluded whenever its status is down.
C25_ToggleTwiceRestores ==
  [][\A id \in ProcSet :
       overrides'[id] # overrides[id] =>
         \A healthMap \in [ProcSet -> BackendHealthChoices] :
           IF overrides[id] # "forceOff"
             THEN id \notin backendCandidateIds(healthMap, overrides')
             ELSE id \in backendCandidateIds(healthMap, overrides')
                    <=> healthMap[id].status # "down"]_vars

\* The four rates of snapshot h are the outcome counts of events over their
\* number.
observedRates(h, events) ==
  /\ h.totalRequests = Len(events)
  /\ h.successRate = Frac(countByType(events, "success"), Len(events))
  /\ h.declineRate = Frac(countByType(events, "declined"), Len(events))
  /\ h.errorRate = Frac(countByType(events, "error"), Len(events))
  /\ h.timeoutRate = Frac(countByType(events, "timeout"), Len(events))

\* C26: for a window of at least one and fewer than minSamples events
\* getHealth reports the observed rates and status healthy, whatever the
\* outcomes, a window of only errors and timeouts included.
C26_FewSamplesStayHealthy ==
  \A p \in ProcSet :
    LET events == windowOf(p)
        h == getHealth(p, windows, config, now)
    IN  (Len(events) >= 1 /\ Len(events) < config.minSamples)
          => h.status = "healthy" /\ observedRates(h, events)

\* C26 witness: a window of errors and timeouts only, shorter than the
\* default minSamples: error rate plus timeout rate 1, status healthy.
C26_Witness ==
  LET events == windowOf(loaded)
      h == getHealth(loaded, windows, config, now)
  IN  /\ config.minSamples = DEFAULT_CONFIG.minSamples
      /\ Len(events) = MaxWindow
      /\ Len(events) < config.minSamples
      /\ onlyOfTypes(events, {"error", "timeout"})
      /\ h.errorRate.n > 0 /\ h.timeoutRate.n > 0
      /\ h.errorRate.n + h.timeoutRate.n = h.totalRequests
      /\ h.status = "healthy"

\* The threshold classification of availability a under the thresholds now.
classify(a) ==
  IF a.n * 100 >= config.degradedThreshold * a.d THEN "healthy"
  ELSE IF a.n * 100 >= config.downThreshold * a.d THEN "degraded"
  ELSE "down"

availabilityOf(events) == Frac(Len(events) - failedCount(events), Len(events))

statusRank(status) == CASE status = "healthy" -> 2 [] status = "degraded" -> 1
                        [] status = "down" -> 0

\* The most recent k events of a window.
mostRecent(events, k) ==
  [i \in 1..Min(k, Len(events)) |-> events[Len(events) - Min(k, Len(events)) + i]]

\* C27: for a window of at least minSamples events the status is the
\* threshold classification of the smaller of the full-window availability
\* and the availability of the most recent recentSampleSize events, the
\* recent sample counting only when it holds at least half of
\* recentSampleSize events; so the status is never better than the
\* classification of the full window alone, and a window whose last
\* recentSampleSize events all failed is down whatever its full-window
\* availability.
C27_StatusFromWorseOfFullAndRecent ==
  \A p \in ProcSet :
    LET events == windowOf(p)
        h == getHealth(p, windows, config, now)
        full == availabilityOf(events)
        recent == mostRecent(events, config.recentSampleSize)
        effective ==
          IF 2 * Len(recent) >= config.recentSampleSize
               /\ FracLE(availabilityOf(recent), full)
            THEN availabilityOf(recent) ELSE full
    IN  (events # << >> /\ Len(events) >= config.minSamples) =>
          /\ h.status = classify(effective)
          /\ statusRank(h.status) <= statusRank(classify(full))
          /\ (Len(recent) = config.recentSampleSize
                /\ failedCount(recent) = Len(recent))
               => h.status = "down"

\* C27 witness: a long run of successes followed by recentSampleSize
\* failures: the full window is above degradedThreshold, the status is down.
C27_Witness ==
  LET events == windowOf(loaded)
      recent == mostRecent(events, config.recentSampleSize)
  IN  /\ Len(events) >= config.minSamples
      /\ Len(events) > 10 * config.recentSampleSize
      /\ failedCount(events) = config.recentSampleSize
      /\ failedCount(recent) = Len(recent)
      /\ classify(availabilityOf(events)) = "healthy"
      /\ statusOf(loaded) = "down"

latencySum(events) == SeqSum([i \in 1..Len(events) |-> events[i].latencyMs])

\* k = round(min(100, 70 * a + max(0, 30 * (1 - avg / 3000)))) for the
\* availability a and the mean latency avg = latencies / count, written over
\* the common denominator den: k is the integer with k - 1/2 <= value < k + 1/2.
isScoreOf(k, a, latencies, count) ==
  LET den == 100 * a.d * count
      availabilityPart == 7000 * a.n * count
      latencyPart == IF latencies >= 3000 * count THEN 0
                     ELSE (3000 * count - latencies) * a.d
      capped == Min(availabilityPart + latencyPart, 100 * den)
  IN  /\ k \in 0..100
      /\ 2 * k * den <= 2 * capped + den
      /\ 2 * capped + den < 2 * (k + 1) * den

cumulative(weights, i) == SeqSum(SubSeq(weights, 1, i))

\* The first index whose cumulative weight reaches the draw cursor2 / 2.
firstReaching(weights, cursor2) ==
  CHOOSE i \in 1..Len(weights) :
    /\ 2 * cumulative(weights, i) >= cursor2
    /\ \A j \in 1..(i - 1) : 2 * cumulative(weights, j) < cursor2

\* C29: with two or more candidates and a positive total weight, every draw
\* d in [0, totalWeight] returns the first candidate, in registry order,
\* whose cumulative weight is >= d; so candidate i is returned on an interval
\* of length weight[i] of the draw range: candidates of equal weight (equal
\* score and equal bonus) get equal shares, two of them alone half each, and
\* a candidate of weight 0 is returned by no draw.
C29_WalkIsProportional ==
  LET weights == weightsOf(candidatesNow)
      total == SeqSum(weights)
  IN  (Len(candidatesNow) >= 2 /\ total > 0) =>
        /\ \A i \in 1..(Len(candidatesNow) - 1) :
             \E k \in 1..Len(PROCESSOR_IDS) :
               /\ PROCESSOR_IDS[k] = candidatesNow[i].processorId
               /\ \E l \in (k + 1)..Len(PROCESSOR_IDS) :
                    PROCESSOR_IDS[l] = candidatesNow[i + 1].processorId
        /\ \A d \in DrawsFor(getAllHealth(PROCESSOR_IDS, windows, config, now), overrides) :
             LET chosen == weightedRandomSelect(candidatesNow, d)
                 i == firstReaching(weights, d.cursor2)
             IN  /\ chosen = candidatesNow[i].processorId
                 /\ weights[i] > 0
                 /\ chosen = selectProcessor(windows, config, overrides, now, d)
        /\ \A i \in 1..Len(candidatesNow) : drawShare(weights, i) = weights[i]
        /\ \A i, j \in 1..Len(candidatesNow) :
             weights[i] = weights[j] => drawShare(weights, i) = drawShare(weights, j)
        /\ (Len(candidatesNow) = 2 /\ weights[1] = weights[2]) =>
             2 * drawShare(weights, 1) = total

\* C29 witness: three candidates, the first two of equal score and equal
\* weight, the third force-enabled with weight 0, and a draw made.
C29_Witness ==
  LET weights == weightsOf(candidatesNow)
  IN  /\ Len(candidatesNow) = 3
      /\ candidatesNow[1].score = candidatesNow[2].score
      /\ weights[1] = weights[2] /\ weights[1] > 0
      /\ weights[3] = 0
      /\ overrides[candidatesNow[3].processorId] = "forceOn"
      /\ selected \in {candidatesNow[1].processorId, candidatesNow[2].processorId}

\* The buffer is within capacity and each record is no older than the next.
bufferInOrder(buffer) ==
  /\ Len(buffer) <= MAX_STORED_TRANSACTIONS
  /\ \A i \in 1..(Len(buffer) - 1) : buffer[i].timestamp >= buffer[i + 1].timestamp

\* r is the newest records of buffer, at most 100 of them, in buffer order.
newestOf(r, buffer) ==
  /\ Len(r) <= 100
  /\ Len(r) = 100 \/ Len(r) = Len(buffer)
  /\ \A i \in 1..Len(r) : r[i] = buffer[i]

\* A step that stores a transaction: the new record goes in front; a buffer
\* below capacity keeps every record, a full one loses its last record only,
\* and no record it keeps is older than the one lost.
insertStep ==
  LET old == recentTransactions
      new == recentTransactions'
      n == Len(old)
  IN  /\ new # << >>
      /\ IF n < MAX_STORED_TRANSACTIONS
           THEN Tail(new) = old
           ELSE /\ Tail(new) = SubSeq(old, 1, n - 1)
                /\ \A i \in 1..(n - 1) : old[i].timestamp >= old[n].timestamp

\* C30: in every reachable state, the seeded one included, the recent-
\* transactions buffer holds at most 500 records in most-recent-first order
\* with non-increasing timestamps, and getRecentTransactions returns its
\* newest records, at most 100, in that order; every step that changes the
\* buffer puts one record in front and, when the buffer was full, evicts
\* exactly the oldest record.
C30_BufferBoundedNewestFirst ==
  /\ [](/\ bufferInOrder(recentTransactions)
        /\ newestOf(getRecentTransactions(recentTransactions), recentTransactions))
  /\ [][recentTransactions' # recentTransactions => insertStep]_vars

\* A full seeded buffer has taken two live transactions: both are in front,
\* two seeded records are gone, and 100 of the 500 records are returned.
C30_Witness ==
  /\ Len(recentTransactions) = MAX_STORED_TRANSACTIONS
  /\ metrics.totalTransactions = SEED_COUNT + 2
  /\ recentTransactions[2].timestamp > 0
  /\ recentTransactions[3].timestamp < 0
  /\ Len(getRecentTransactions(recentTransactions)) = 100

\* The four aggregate counters of a metrics record.
countersOf(m) ==
  << m.totalTransactions, m.successfulTransactions, m.declinedTransactions,
     m.failedTransactions >>

\* C31: the aggregate counters are updated once per completed transaction
\* and never reset.  A completion raises totalTransactions by exactly 1 and
\* exactly one of the three class counters by 1; no counter ever decreases;
\* every other step (a tick, start(), stop(), a health query, a clock step)
\* leaves the four counters as they were, so a stop() followed by a start()
\* finds them at their previous values.
C31_CountersCountEachCompletionOnce ==
  [][/\ \A i \in 1..4 : countersOf(metrics')[i] >= countersOf(metrics)[i]
     /\ completionStep =>
          /\ metrics'.totalTransactions = metrics.totalTransactions + 1
          /\ metrics'.successfulTransactions + metrics'.declinedTransactions
               + metrics'.failedTransactions
               = metrics.successfulTransactions + metrics.declinedTransactions
                   + metrics.failedTransactions + 1
     /\ ~completionStep => countersOf(metrics') = countersOf(metrics)
     /\ running' # running => countersOf(metrics') = countersOf(metrics)]_vars

\* C31 witness: the engine was started, stopped and started again after a
\* live transaction had completed, and the counters still hold the seeds
\* and every completion.
C31_Witness ==
  /\ running
  /\ starts = 2
  /\ Len(eventsOfType("simulation")) = 3
  /\ \E i \in 1..Len(emitted) :
       /\ emitted[i].type = "metrics"
       /\ \E j \in (i + 1)..Len(emitted) : emitted[j] = simulationEvent(FALSE, emitted[j].payload.startTime)
  /\ metrics.totalTransactions = MaxSeed + Len(eventsOfType("metrics"))
  /\ metrics.totalTransactions > MaxSeed

\* (MAX_COST - fee) / 10000 x amount / 100 for the processor's registry fee,
\* in 1e-6 USD.
savingOf(tx) == (MAX_COST - ConfigOf(tx.processorId).costPerTransaction) * tx.amount

\* C32: totalCostSavedUsd accumulates only on successful transactions.  A
\* completion whose outcome is declined, error or timeout leaves it as it
\* was, a successful one adds (MAX_COST - fee)/10000 x amount/100, which is
\* never negative; no other step changes it, so it never decreases.
C32_SavingsOnlyOnSuccess ==
  [][/\ metrics'.totalCostSavedUsd >= metrics.totalCostSavedUsd
     /\ ~completionStep => metrics'.totalCostSavedUsd = metrics.totalCostSavedUsd
     /\ completionStep =>
          LET tx == emitted'[Len(emitted) + 1].payload
          IN  /\ savingOf(tx) >= 0
              /\ metrics'.totalCostSavedUsd =
                   metrics.totalCostSavedUsd
                     + (IF tx.status = "success" THEN savingOf(tx) ELSE 0)]_vars

\* C32 witness: a success on a processor cheaper than the dearest one has
\* been credited, and the failure completed after it has added nothing.
C32_Witness ==
  LET txs == eventsOfType("transaction")
      snaps == eventsOfType("metrics")
  IN  /\ Len(txs) = 2
      /\ txs[1].payload.status = "success"
      /\ savingOf(txs[1].payload) > 0
      /\ txs[2].payload.status \in {"declined", "error", "timeout"}
      /\ savingOf(txs[2].payload) > 0
      /\ metrics.totalCostSavedUsd = snaps[1].payload.totalCostSavedUsd
      /\ metrics.totalCostSavedUsd >= savingOf(txs[1].payload)

\* The records of the buffer completed from time from on.
completedSince(buffer, from) ==
  Cardinality({i \in 1..Len(buffer) : buffer[i].timestamp >= from})

\* C33: transactionsPerSecond is a step function over a 5000 ms window.  It
\* changes only in a metrics update made at least 5000 ms after the window
\* start; that update sets it to the number of transactions counted since
\* the window start divided by 5, rounded to one decimal (kept in tenths),
\* resets the counter to 0 and the window start to the clock; an earlier
\* update only counts.  The transactions counted are the ones completed in
\* the window: the records stamped at or after the window start.
C33_TpsCountsTheWindow ==
  [][LET elapsed == now - tpsWindowStart >= TPS_WINDOW_MS
         counted == tpsWindowCount + 1
     IN  /\ metrics'.transactionsPerSecond # metrics.transactionsPerSecond
              => completionStep /\ elapsed
         /\ ~completionStep => UNCHANGED << tpsWindowCount, tpsWindowStart >>
         /\ (completionStep /\ ~elapsed) =>
              /\ tpsWindowCount' = counted
              /\ tpsWindowStart' = tpsWindowStart
         /\ (completionStep /\ elapsed) =>
              /\ metrics'.transactionsPerSecond = Round(counted * 10 * 1000, TPS_WINDOW_MS)
              /\ tpsWindowCount' = 0
              /\ tpsWindowStart' = now
              /\ Len(recentTransactions') < MAX_STORED_TRANSACTIONS =>
                   counted = completedSince(recentTransactions', tpsWindowStart)]_vars

\* The two presets, as the claim lists them (rates in percent).
normalPreset ==
  [degraded |-> FALSE, errorRate |-> 5, timeoutRate |-> 3, declineRate |-> 10,
   latencyMultiplier |-> 1]

degradedPreset ==
  [degraded |-> TRUE, errorRate |-> 35, timeoutRate |-> 40, declineRate |-> 10,
   latencyMultiplier |-> 40]

\* states with the profile of p replaced and every other profile kept.
withProfile(states, p, profile) ==
  [q \in DOMAIN states |-> IF q = p THEN profile ELSE states[q]]

\* C34: degradeProcessor and restoreProcessor switch one processor's failure
\* profile between two presets.  In every reachable state every profile is
\* one of the two presets and isProcessorDegraded(p) tells which; from that
\* state degradeProcessor(p) gives the degraded preset and restoreProcessor(p)
\* the initial normal profile, whatever the profile was (so each is
\* idempotent, restore undoes degrade exactly, and isProcessorDegraded
\* follows the last of the two calls), leaving every other profile as it was;
\* and every step that changes a profile is one such switch of one processor.
C34_DegradeRestoreSwitchPresets ==
  /\ [](\A p \in ProcSet :
         LET d == degradeProcessor(processorStates, p)
             r == restoreProcessor(processorStates, p)
         IN  /\ processorStates[p] \in {normalPreset, degradedPreset}
             /\ isProcessorDegraded(processorStates, p)
                  <=> processorStates[p] = degradedPreset
             /\ d = withProfile(processorStates, p, degradedPreset)
             /\ r = withProfile(processorStates, p, normalPreset)
             /\ degradeProcessor(d, p) = d /\ restoreProcessor(r, p) = r
             /\ restoreProcessor(d, p) = r /\ degradeProcessor(r, p) = d
             /\ isProcessorDegraded(d, p) /\ ~isProcessorDegraded(r, p)
             /\ \A q \in ProcSet \ {p} :
                  /\ isProcessorDegraded(d, q) = isProcessorDegraded(processorStates, q)
                  /\ isProcessorDegraded(r, q) = isProcessorDegraded(processorStates, q))
  /\ [][processorStates' # processorStates =>
          \E p \in ProcSet :
            \/ /\ processorStates[p] = normalPreset
               /\ processorStates' = withProfile(processorStates, p, degradedPreset)
            \/ /\ processorStates[p] = degradedPreset
               /\ processorStates' = withProfile(processorStates, p, normalPreset)]_vars

\* C34 witness: two processors are degraded, the third is at the normal
\* preset, and calls naming an unregistered id have been made as well.
C34_Witness ==
  /\ processorStates[PROCESSOR_IDS[2]] = degradedPreset
  /\ processorStates[PROCESSOR_IDS[1]] = normalPreset
  /\ processorStates[PROCESSOR_IDS[3]] = degradedPreset
  /\ ops = MaxOps

\* The outcome the draw r selects against the cumulative thresholds of a
\* failure profile (rates and draw in percent).
bucketOf(profile, r) ==
  LET untilTimeout == profile.timeoutRate
      untilError == untilTimeout + profile.errorRate
      untilDeclined == untilError + profile.declineRate
  IN  CASE r < untilTimeout -> "timeout"
        [] r >= untilTimeout /\ r < untilError -> "error"
        [] r >= untilError /\ r < untilDeclined -> "declined"
        [] OTHER -> "success"

\* C35: processTransaction yields exactly one outcome per call, decided by
\* one draw against the cumulative thresholds read when the call is made:
\* timeout below timeoutRate, error below timeoutRate + errorRate, declined
\* below timeoutRate + errorRate + declineRate, success otherwise.  The
\* outcome of a suspended call is not decided again, whatever happens to
\* the failure profile meanwhile, and the call resolves once with that
\* outcome; a timeout reports a latency of at most 3000 ms and sleeps no
\* longer, whatever latency was computed.
C35_OneDrawDecidesOutcome ==
  [][/\ issued' # issued =>
          \E x \in inflight' \ inflight :
            /\ inflight' = inflight \cup {x}
            /\ x.status = bucketOf(processorStates[x.processorId], x.rand)
            /\ x.status = "timeout" =>
                 /\ x.latencyMs <= TIMEOUT_CEILING_MS
                 /\ x.due - now <= TIMEOUT_CEILING_MS
     /\ issued' = issued => inflight' \subseteq inflight
     /\ completionStep =>
          LET tx == emitted'[Len(emitted) + 1].payload
          IN  /\ \E x \in inflight :
                   /\ inflight' = inflight \ {x}
                   /\ << tx.processorId, tx.status, tx.latencyMs >>
                        = << x.processorId, x.status, x.latencyMs >>
              /\ tx.status = "timeout" => tx.latencyMs <= TIMEOUT_CEILING_MS]_vars

\* C35 witness: a call made on the degraded profile drew a timeout (the
\* same draw is a success on the normal profile) with a computed latency
\* above the ceiling; the profile has been restored while the call is
\* suspended, and an earlier call has resolved as an error.
C35_Witness ==
  /\ ~isProcessorDegraded(processorStates, loaded)
  /\ \E x \in inflight :
       /\ x.processorId = loaded
       /\ x.rand = 39
       /\ x.status = "timeout"
       /\ bucketOf(processorStates[loaded], x.rand) = "success"
       /\ ConfigOf(loaded).baseLatencyMs * degradedPreset.latencyMultiplier
            > TIMEOUT_CEILING_MS
       /\ x.latencyMs = TIMEOUT_CEILING_MS
  /\ Len(eventsOfType("transaction")) = 1
  /\ eventsOfType("transaction")[1].payload.status = "error"

\* The cutoffs that can tell two prunings of a window apart: the one in
\* force, and every event's timestamp with the millisecond on either side.
cutoffsOf(events) ==
  {now - config.windowSizeMs}
    \cup {events[i].timestamp + d : i \in 1..Len(events), d \in {-1, 0, 1}}

\* C36: in every reachable state the events of each health window are in
\* non-decreasing timestamp order, so keeping the events at or after the
\* cutoff (the filter of pruneWindow) gives the same window as removing the
\* expired events from the front only (the loop of the backend's
\* pruneOldRecords), for the cutoff in force and for any other cutoff.
C36_FilterEqualsFrontTrim ==
  \A p \in ProcSet :
    LET events == windows[p]
    IN  /\ \A i \in 1..(Len(events) - 1) :
             events[i].timestamp <= events[i + 1].timestamp
        /\ \A cutoff \in cutoffsOf(events) :
             pruneWindow(events, [config EXCEPT !.windowSizeMs = now - cutoff], now)
               = pruneOldRecords(events, cutoff)

\* C36 witness: a window holds events of two different times, the older
\* ones expired under the window size in force and the newer one not, so
\* pruning removes a proper, non-empty front part.
C36_Witness ==
  \E p \in ProcSet :
    LET events == windows[p]
        kept == pruneOldRecords(events, now - config.windowSizeMs)
    IN  /\ Len(events) >= 3
        /\ Len(kept) = 1
        /\ events[1].timestamp < events[Len(events)].timestamp
        /\ kept = pruneWindow(events, config, now)

\* The time since the last event recorded for p, which has events.
sinceLastEvent(p) == now - recorded[p][Len(recorded[p])].timestamp

\* p is shut out of routing by its health alone.
excludedAsDown(p) == statusOf(p) = "down" /\ getOverride(overrides, p) = NULL

\* What getHealth and the router make of a window with nothing left in it.
clearedAndRoutable(p) ==
  /\ windowOf(p) = << >>
  /\ neutralBaseline(getHealth(p, windows, config, now))
  /\ p \in candidateIds

\* C37 as stated: a processor that is down with no override receives no new
\* events, and once windowSizeMs has elapsed since its last event its window
\* is empty, getHealth reports the neutral baseline with score 100 and it is
\* a routing candidate again, restored or not.
C37_DownClearsAfterWindow ==
  /\ [](\A p \in ProcSet :
         (recorded[p] # << >> /\ sinceLastEvent(p) >= config.windowSizeMs)
           => clearedAndRoutable(p))
  /\ [][\A p \in ProcSet : excludedAsDown(p) => recorded'[p] = recorded[p]]_vars

\* C37 amended: a processor that is down with no override is not a
\* candidate and no tick issues a transaction to it; the only events it
\* still receives come from transactions already in flight, each recorded
\* by its own completion.  Once more than windowSizeMs has passed since its
\* last recorded event its window is empty, getHealth reports the neutral
\* baseline with score 100 and it is a candidate again, whether or not it
\* was restored; at exactly windowSizeMs the last event is still counted.
C37_DownClearsOnceWindowHasPassed ==
  /\ [](\A p \in ProcSet :
         /\ excludedAsDown(p) => p \notin candidateIds /\ p \notin Selectable
         /\ (recorded[p] # << >> /\ sinceLastEvent(p) > config.windowSizeMs)
              => clearedAndRoutable(p)
         /\ (recorded[p] # << >> /\ sinceLastEvent(p) = config.windowSizeMs)
              => windowOf(p) # << >>)
  /\ [][\A p \in ProcSet :
         excludedAsDown(p) =>
           /\ issued' # issued => selected' # p
           /\ \A x \in inflight' : x.processorId = p => x \in inflight
           /\ recorded'[p] # recorded[p] =>
                /\ completionStep
                /\ \E x \in inflight :
                     /\ x.processorId = p
                     /\ inflight' = inflight \ {x}
                     /\ recorded'[p] = Append(recorded[p],
                                               [timestamp |-> now, type |-> x.status,
                                                latencyMs |-> x.latencyMs])]_vars

\* C37 witness: a completion published the degraded processor as down, a
\* transaction that was in flight to it then completed as well, it was
\* never restored, more than windowSizeMs has passed since its last event,
\* and it is a candidate again with the neutral baseline.
C37_Witness ==
  /\ isProcessorDegraded(processorStates, loaded)
  /\ ops = 1
  /\ \E i \in 1..Len(emitted) :
       /\ emitted[i].type = "health"
       /\ \E k \in 1..Len(emitted[i].payload) :
            /\ emitted[i].payload[k].processorId = loaded
            /\ emitted[i].payload[k].status = "down"
       /\ \E j \in (i + 1)..Len(emitted) :
            /\ emitted[j].type = "transaction"
            /\ emitted[j].payload.processorId = loaded
  /\ sinceLastEvent(loaded) > config.windowSizeMs
  /\ clearedAndRoutable(loaded)

\* The transaction issued as the k-th is suspended at its await.
inFlight(k) == \E x \in inflight : x.seq = k

\* The completion of the suspended transaction x, in one step: one event
\* recorded and in the window, one record at the head of the buffer, the
\* total up by one, one transaction event.
completesOnce(x) ==
  LET ev == [timestamp |-> now, type |-> x.status, latencyMs |-> x.latencyMs]
      tx == emitted'[Len(emitted) + 1]
      window == windows'[x.processorId]
  IN  /\ inflight' = inflight \ {x}
      /\ recorded' = [recorded EXCEPT ![x.processorId] = Append(@, ev)]
      /\ window # << >> /\ window[Len(window)] = ev
      /\ Len(recentTransactions') = Len(recentTransactions) + 1
      /\ << recentTransactions'[1].processorId, recentTransactions'[1].status >>
           = << x.processorId, x.status >>
      /\ metrics'.totalTransactions = metrics.totalTransactions + 1
      /\ eventsOfType("transaction")' = Append(eventsOfType("transaction"), tx)
      /\ tx.payload = recentTransactions'[1]

\* C38: every transaction the router gave a processor completes, exactly
\* once.  A suspended transaction leaves the set in flight only by its
\* completion, which records one event, stores one record, counts one
\* transaction and emits one transaction event; no other step records,
\* stores, counts or emits a transaction; the transactions issued are at
\* all times the ones in flight plus the ones completed; and, start(),
\* stop(), override, degrade and restore calls notwithstanding, each
\* transaction in flight is eventually completed.
C38_EveryIssuedTransactionCompletesOnce ==
  /\ [](/\ issued = Cardinality(inflight) + Len(eventsOfType("transaction"))
        /\ metrics.totalTransactions = MaxSeed + Len(eventsOfType("transaction"))
        /\ \A x, y \in inflight : x.seq = y.seq => x = y)
  /\ [][/\ \A x \in inflight \ inflight' : completesOnce(x)
        /\ inflight \subseteq inflight' =>
             UNCHANGED << recorded, recentTransactions, metrics >>
               /\ eventsOfType("transaction")' = eventsOfType("transaction")]_vars
  /\ \A k \in 1..MaxTx : inFlight(k) ~> (issued >= k /\ ~inFlight(k))

\* C38 witness: the transactions issued to the degraded processor while the
\* engine ran overlapped and all completed after stop(): the last events
\* emitted follow the simulation event of the stop, and nothing is in flight.
C38_Witness ==
  /\ ~running
  /\ issued = MaxTx
  /\ inflight = {}
  /\ isProcessorDegraded(processorStates, loaded)
  /\ Len(eventsOfType("transaction")) = MaxTx
  /\ emitted[Len(emitted) - 3 * MaxTx] = simulationEvent(FALSE, startTime)
  /\ \A i \in 1..MaxTx : eventsOfType("transaction")[i].payload.processorId = loaded

\* C39: in every reachable state of the engine the tick timer handle is
\* non-null exactly when running is true; the runtime then holds exactly
\* one active tick timer, the one the handle names, and none while the
\* engine is stopped, after any sequence of start() and stop() calls.
C39_HandleIffRunning ==
  /\ (intervalHandle # NoHandle) <=> running
  /\ running => timerIds(timers) = {intervalHandle} /\ Cardinality(timers) = 1
  /\ ~running => timers = {}

\* C39 witness: the engine was started twice and is stopped again, with a
\* transaction still in flight.
C39_Witness ==
  /\ ~running
  /\ starts = 2
  /\ Len(eventsOfType("simulation")) = 4
  /\ intervalHandle = NoHandle
  /\ inflight # {}

=============================================================================
